---- MODULE Spec2Model ----
(***************************************************************************)
(* A model of the apostrophe query cursor (apostrophe-docs/lib/cursor.js)  *)
(* and of the schema engine (apostrophe-schemas/index.js): filter state,   *)
(* finalize / after passes, terminal operations, clone; compose, refine    *)
(* and join resolution.                                                    *)
(*                                                                         *)
(* JavaScript values are tagged tuples, so that values of different types  *)
(* can be compared: <<"undefined">>, <<"null">>, <<"bool", b>>,            *)
(* <<"num", n>>, <<"str", s>>, <<"arr", elems>> and <<"obj", pairs>>,      *)
(* where pairs is the sequence of <<key, value>> in insertion order.       *)
(***************************************************************************)
EXTENDS Integers, Sequences, FiniteSets, TLC

VARIABLES
  heap,        \* state objects: reference -> (state key -> value)
  stateRef,    \* cursor -> reference of its `state` object, NoRef before creation
  finalized,   \* cursor -> its `_finalized` flag
  flows,       \* flow -> position of a terminal operation in progress
  lastQuery,   \* cursor -> the last query handed to the store by that cursor
  finDone,     \* cursor -> a finalize pass has completed successfully on it
  passes,      \* cursor -> how many finalize passes have been started on it
  event,       \* what the last step did: its kind, its cursor, whether a call threw
  cfg,         \* schema module configuration and the inputs of the last schema call
  schema,      \* the schema produced by the last compose / refine
  prevSchema,  \* the schema handed to the last refine
  jschema,     \* the schema handed to join, with the descriptors join leaves on it
  jcalls,      \* join driver invocations made by the last join call
  jin          \* the inputs and outcome of the last join call

cursorVars == <<heap, stateRef, finalized, flows, lastQuery, finDone, passes, event>>
composeVars == <<cfg, schema, prevSchema>>
joinVars == <<jschema, jcalls, jin>>
vars == <<heap, stateRef, finalized, flows, lastQuery, finDone, passes, event,
          cfg, schema, prevSchema, jschema, jcalls, jin>>

----------------------------------------------------------------------------
(* JavaScript values *)

Undef == <<"undefined">>
Null == <<"null">>
Bool(b) == <<"bool", b>>
Num(n) == <<"num", n>>
Str(s) == <<"str", s>>
Arr(elems) == <<"arr", elems>>
Obj(pairs) == <<"obj", pairs>>
EmptyObj == Obj(<<>>)

IsNumber(v) == v[1] = "num"
IsObj(v) == v[1] = "obj"

\* JavaScript truthiness, as used by `if (x)`, `!x` and `x || y`
Truthy(v) ==
  /\ v # Undef
  /\ v # Null
  /\ v # Bool(FALSE)
  /\ v # Num(0)
  /\ v # Str("")

OrElse(a, b) == IF Truthy(a) THEN a ELSE b

Range(s) == {s[i] : i \in DOMAIN s}

RECURSIVE IndexOfKey(_, _, _)
IndexOfKey(pairs, k, i) ==
  IF i > Len(pairs) THEN 0
  ELSE IF pairs[i][1] = k THEN i
  ELSE IndexOfKey(pairs, k, i + 1)

ObjKeys(o) == [i \in DOMAIN o[2] |-> o[2][i][1]]
ObjHas(o, k) == IndexOfKey(o[2], k, 1) # 0
ObjGet(o, k) == IF ObjHas(o, k) THEN o[2][IndexOfKey(o[2], k, 1)][2] ELSE Undef

\* o[k] = v: an existing key keeps its place, a new key goes last
ObjSet(o, k, v) ==
  IF ObjHas(o, k)
  THEN Obj([o[2] EXCEPT ![IndexOfKey(o[2], k, 1)] = <<k, v>>])
  ELSE Obj(Append(o[2], <<k, v>>))

\* delete o[k]
ObjDel(o, k) ==
  LET i == IndexOfKey(o[2], k, 1)
  IN IF i = 0 THEN o
     ELSE Obj(SubSeq(o[2], 1, i - 1) \o SubSeq(o[2], i + 1, Len(o[2])))

\* _.assign(a, b): the keys of b are written into a, in b's order
RECURSIVE AssignFrom(_, _, _)
AssignFrom(a, pairs, i) ==
  IF i > Len(pairs) THEN a
  ELSE AssignFrom(ObjSet(a, pairs[i][1], pairs[i][2]), pairs, i + 1)

Assign(a, b) == IF IsObj(b) THEN AssignFrom(a, b[2], 1) ELSE a

\* one-key criteria objects
Cond(k, v) == Obj(<< <<k, v>> >>)
AndC(p, c) == Cond("$and", Arr(<<p, c>>))

----------------------------------------------------------------------------
(* The cursor: state access *)

Cursors == {"c", "c2"}
NoRef == "none"
Refs == {"r1", "r2"}

StateKeys ==
  {"req", "criteria", "lateCriteria", "projection", "defaultSort", "sort",
   "sortMongo", "skip", "limit", "perPage", "page", "permission",
   "autocomplete", "search", "regexSearch", "tag", "tags", "trash",
   "published", "explicitOrder", "explicitOrderProperty", "type", "joins",
   "addUrls", "totalPages", "custom"}

\* self.state = {}
EmptyState == [k \in StateKeys |-> Undef]

\* self.get(key)
Get(st, key) == st[key]

\* self.set(key, value)
Set(st, key, value) == [st EXCEPT ![key] = value]

\* The filters, in the order addFilter registers them: those of the cursor,
\* then `custom`, which a subclass adds as
\*   addFilter('custom', { finalize: function() {
\*     if (self.get('custom') === 'throw') { throw new Error('custom'); }
\*     return self.get('custom'); } })
FilterOrder ==
  <<"criteria", "addLateCriteria", "and", "projection", "defaultSort", "sort",
    "skip", "limit", "perPage", "page", "permission", "autocomplete",
    "search", "tag", "tags", "trash", "published", "explicitOrder", "type",
    "joins", "addUrls", "custom">>

NFilters == Len(FilterOrder)

\* definition.def of each filter
FilterDef(name) ==
  CASE name = "criteria" -> EmptyObj
    [] name = "page" -> Num(1)
    [] name = "published" -> Bool(TRUE)
    [] name = "joins" -> Bool(TRUE)
    [] name = "addUrls" -> Bool(TRUE)
    [] OTHER -> Undef

\* An `and` that merges the keys of c into the criteria object
SetAndMerging(st, c) ==
  IF ~Truthy(c) THEN st
  ELSE IF ~Truthy(Get(st, "criteria")) THEN Set(st, "criteria", c)
  ELSE Set(st, "criteria", Assign(Get(st, "criteria"), c))

\* The `set` of the `and` filter
SetAnd(st, c) ==
  IF ~Truthy(c) THEN st
  ELSE IF ~Truthy(Get(st, "criteria")) THEN Set(st, "criteria", c)
  ELSE Set(st, "criteria", AndC(Get(st, "criteria"), c))

\* The `set` of the addLateCriteria filter
SetAddLateCriteria(st, c) ==
  IF ~Truthy(Get(st, "lateCriteria"))
  THEN Set(st, "lateCriteria", c)
  ELSE Set(st, "lateCriteria", Assign(Get(st, "lateCriteria"), c))

\* The `set` of the explicitOrder filter
SetExplicitOrder(st, values, property) ==
  Set(Set(st, "explicitOrder", values), "explicitOrderProperty", property)

\* definition.set, or the default self.set(name, value); args are the
\* arguments of the call, missing ones being undefined
ApplySet(st, name, args) ==
  LET a1 == IF Len(args) >= 1 THEN args[1] ELSE Undef
      a2 == IF Len(args) >= 2 THEN args[2] ELSE Undef
  IN CASE name = "and" -> SetAnd(st, a1)
       [] name = "addLateCriteria" -> SetAddLateCriteria(st, a1)
       [] name = "explicitOrder" -> SetExplicitOrder(st, a1, a2)
       [] OTHER -> Set(st, name, a1)

\* The key a filter's wrapper reads with self.get(name)
FilterValue(st, name) == IF name \in StateKeys THEN Get(st, name) ELSE Undef

\* "If the filter has still not been called ... the filter is called with def"
ApplyDefault(st, name) ==
  IF FilterValue(st, name) = Undef
  THEN ApplySet(st, name, <<FilterDef(name)>>)
  ELSE st

----------------------------------------------------------------------------
(* The cursor: finalizers *)

\* Doc types apos.docs.getManager knows, each with a schema
ManagedTypes == {"apostrophe-page", "event"}

\* The names of the schema fields of a managed type that have sortify: true
SortifyFields(type) == {"title"}

TextScoreMeta == Cond("$meta", Str("textScore"))

\* finalize of the projection filter
FinalizeProjection(st) ==
  LET p0 == OrElse(Get(st, "projection"), EmptyObj)
      p1 == IF Truthy(Get(st, "search"))
            THEN ObjSet(p0, "textScore", TextScoreMeta)
            ELSE p0
  IN Set(st, "projection", p1)

\* A sort finalizer that sorts by search relevance also under regex search
DefaultedSortIgnoringRegex(st) ==
  LET sort == Get(st, "sort")
  IN IF sort = Bool(FALSE) THEN sort
     ELSE IF Truthy(Get(st, "search"))
     THEN IF ~Truthy(sort) \/ sort = Str("search")
          THEN Cond("textScore", TextScoreMeta)
          ELSE sort
     ELSE IF ~Truthy(sort)
     THEN OrElse(Get(st, "defaultSort"), Cond("title", Num(1)))
     ELSE sort

\* The sort the sort finalizer settles on before it stores it with self.set
DefaultedSort(st) ==
  LET sort == Get(st, "sort")
  IN IF sort = Bool(FALSE) THEN sort
     ELSE IF Truthy(Get(st, "search"))
     THEN IF ~Truthy(Get(st, "regexSearch")) /\ (~Truthy(sort) \/ sort = Str("search"))
          THEN Cond("textScore", TextScoreMeta)
          ELSE sort
     ELSE IF ~Truthy(sort)
     THEN OrElse(Get(st, "defaultSort"), Cond("title", Num(1)))
     ELSE sort

\* sort[key + 'Sortified'] = sort[key]; delete sort[key], for each key the
\* sort had when the loop began
RECURSIVE SortifyKeys(_, _, _, _)
SortifyKeys(sort, keys, i, fields) ==
  IF i > Len(keys) THEN sort
  ELSE IF keys[i] \in fields
  THEN SortifyKeys(ObjDel(ObjSet(sort, keys[i] \o "Sortified", ObjGet(sort, keys[i])), keys[i]),
                   keys, i + 1, fields)
  ELSE SortifyKeys(sort, keys, i + 1, fields)

\* finalize of the sort filter. With no manager for the type the function
\* refers to an undeclared `callback`: the ReferenceError leaves sortMongo unset
\* and the wrapper hands it to its callback as a result, not as an error.
FinalizeSort(st) ==
  LET sort == DefaultedSort(st)
      st1 == Set(st, "sort", sort)
      type == OrElse(Get(st, "type"), Str("apostrophe-page"))
  IN IF ~Truthy(sort) THEN Set(st1, "sortMongo", sort)
     ELSE IF type[2] \notin ManagedTypes THEN st1
     ELSE IF IsObj(sort)
     THEN Set(st1, "sortMongo", SortifyKeys(sort, ObjKeys(sort), 1, SortifyFields(type[2])))
     ELSE Set(st1, "sortMongo", sort)

\* A skip that counts pages from 0
PageSkipFromZero(page, perPage) == page * perPage

\* The skip the page finalizer computes
PageSkip(page, perPage) == (page - 1) * perPage

\* finalize of the page filter
FinalizePage(st) ==
  IF Truthy(Get(st, "perPage"))
  THEN LET skip == Num(PageSkip(Get(st, "page")[2], Get(st, "perPage")[2]))
       IN ApplySet(ApplySet(st, "skip", <<skip>>), "limit", <<Get(st, "perPage")>>)
  ELSE st

\* Permission names are kept as their dash-separated segments:
\* 'edit' is <<"edit">>, 'edit-doc' is <<"edit", "doc">>, 'view-' is <<"view", "">>
PName(segs) == <<"pname", segs>>
HasDash(p) == Len(p[2]) > 1
\* a + b for a b that begins with a dash
DashConcat(a, b) == a \o Tail(b)

\* self.apos.permissions.criteria(req, name): criteria decided by the policy
PermissionCriteria(req, name) == Cond("$permission", Arr(<<req, name>>))

\* finalize of the permission filter
FinalizePermission(st) ==
  LET typeSuffix == <<"", OrElse(Get(st, "type"), Str("doc"))[2]>>
      p0 == Get(st, "permission")
      p1 == IF Truthy(p0) /\ ~HasDash(p0)
            THEN PName(DashConcat(p0[2], typeSuffix))
            ELSE p0
      name == IF Truthy(p1) THEN p1 ELSE PName(DashConcat(<<"view", "">>, typeSuffix))
  IN IF p0 # Bool(FALSE)
     THEN SetAnd(st, PermissionCriteria(Get(st, "req"), name))
     ELSE st

\* finalize of the search filter
FinalizeSearch(st) ==
  LET search == Get(st, "search")
  IN IF Truthy(search)
     THEN IF Truthy(Get(st, "regexSearch"))
          THEN SetAnd(st, Cond("highSearchText", Arr(<<Str("searchify"), search>>)))
          ELSE SetAnd(st, Cond("$text", Cond("$search", search)))
     ELSE st

\* finalize of the tag filter
FinalizeTag(st) ==
  IF Truthy(Get(st, "tag")) THEN SetAnd(st, Cond("tags", Get(st, "tag"))) ELSE st

\* finalize of the tags filter
FinalizeTags(st) ==
  IF Truthy(Get(st, "tags"))
  THEN SetAnd(st, Cond("tags", Cond("$in", Get(st, "tags"))))
  ELSE st

TrashAbsentOrFalse ==
  Cond("$or", Arr(<<Cond("trash", Cond("$exists", Num(0))), Cond("trash", Bool(FALSE))>>))

\* A trash finalizer that adds a condition only when trash was called
FinalizeTrashWhenCalled(st) ==
  LET trash == Get(st, "trash")
  IN IF trash \in {Null, Undef} THEN st
     ELSE IF ~Truthy(trash) THEN SetAnd(st, TrashAbsentOrFalse)
     ELSE SetAnd(st, Cond("trash", Bool(TRUE)))

\* finalize of the trash filter
FinalizeTrash(st) ==
  LET trash == Get(st, "trash")
  IN IF trash = Null THEN st
     ELSE IF ~Truthy(trash) THEN SetAnd(st, TrashAbsentOrFalse)
     ELSE SetAnd(st, Cond("trash", Bool(TRUE)))

\* finalize of the published filter
FinalizePublished(st) ==
  LET published == Get(st, "published")
  IN IF published = Null THEN st
     ELSE IF Truthy(published) THEN SetAnd(st, Cond("published", Bool(TRUE)))
     ELSE SetAnd(st, Cond("published", Cond("$ne", Bool(TRUE))))

\* finalize of the type filter
FinalizeType(st) ==
  IF Truthy(Get(st, "type")) THEN SetAnd(st, Cond("type", Get(st, "type"))) ELSE st

\* definition.finalize of a filter whose finalize takes no callback
RunFinalize(name, st) ==
  CASE name = "projection" -> FinalizeProjection(st)
    [] name = "sort" -> FinalizeSort(st)
    [] name = "page" -> FinalizePage(st)
    [] name = "permission" -> FinalizePermission(st)
    [] name = "search" -> FinalizeSearch(st)
    [] name = "tag" -> FinalizeTag(st)
    [] name = "tags" -> FinalizeTags(st)
    [] name = "trash" -> FinalizeTrash(st)
    [] name = "published" -> FinalizePublished(st)
    [] name = "type" -> FinalizeType(st)
    [] OTHER -> st

\* self.finalizers[name]: the default is applied, then finalize runs
Finalizer(name, st) == RunFinalize(name, ApplyDefault(st, name))

\* A whole pass of async.series over the finalizers, none signalling
RECURSIVE FinalizeFrom(_, _)
FinalizeFrom(st, i) ==
  IF i > NFilters THEN st
  ELSE LET next == Finalizer(FilterOrder[i], st)
       IN IF DOMAIN next = StateKeys THEN FinalizeFrom(next, i + 1) ELSE next

FinalizePass(st) == FinalizeFrom(st, 1)

\* finalize.length === 1: only the finalize of autocomplete
\* (lib/autocomplete.js) takes a callback
TakesCallback(name) == name = "autocomplete"

\* How the finalize of a filter can end. That of autocomplete queries the store
\* and may deliver an error or 'refinalize' to its callback; that of custom
\* returns the value of the filter, or throws.
FinalizeOutcomes(name, st) ==
  IF name = "autocomplete" /\ Truthy(Get(st, "autocomplete"))
  THEN {"ok", "refinalize", "err"}
  ELSE IF name = "custom" /\ Get(st, "custom") = Str("refinalize") THEN {"returned refinalize"}
  ELSE IF name = "custom" /\ Get(st, "custom") = Str("throw") THEN {"threw"}
  ELSE {"ok"}

\* A wrapper that hands on what finalize returns and what it throws
DeliveredAsSignalled(name, out) ==
  IF out = "returned refinalize" THEN "refinalize" ELSE IF out = "threw" THEN "err" ELSE out

\* What self.finalizers[name] hands to the callback of the series as err: a
\* finalize that takes the callback hands it on itself, any other is wrapped
\* in try/catch and the callback gets (null, returned) or (null, e)
Delivered(name, out) == IF TakesCallback(name) THEN out ELSE "ok"

\* What the callback of a finalizer can be handed
FinalizerSignals(name, st) == {Delivered(name, out) : out \in FinalizeOutcomes(name, st)}

\* What the callback of an after hook can be handed: the joins hook passes on
\* the error of schemas.join, the addUrls hook that of a manager's addUrls.
AfterSignals(name, st) ==
  IF \/ name = "joins" /\ Truthy(Get(st, "joins"))
     \/ name = "addUrls" /\ Truthy(Get(st, "addUrls"))
  THEN {"ok", "err"}
  ELSE {"ok"}

\* self.afters[name]: the default is applied, then after runs (the hooks change
\* the results, not the cursor state)
AfterHook(name, st) == ApplyDefault(st, name)

----------------------------------------------------------------------------
(* The cursor: flows of control *)

Flows == {"f1", "f2"}

\* A flow is one terminal operation being carried out. phase is where it is
\* suspended: "fin" after running finalizer number pos, waiting for its callback;
\* "query" after finalize has called back, before toMongo builds the query;
\* "store" at the store's toArray; "after" after running after hook number pos.
\* out is how the finalize of the last finalizer that called back ended;
\* "count" is toCount waiting for the store's count, and result is what toCount
\* has called back with.
\* ran lists the finalizers run in the current pass and pre is the cursor state
\* the pass began with; origFin and savedLimit are the locals of after and toObject.
IdleFlow ==
  [op |-> "none", cur |-> "none", phase |-> "idle", pos |-> 0, ran |-> <<>>,
   pre |-> <<>>, origFin |-> FALSE, savedLimit |-> Undef, out |-> "none",
   result |-> Undef]

StateOf(cur) == heap[stateRef[cur]]
Exists(cur) == stateRef[cur] # NoRef
FlowsOn(cur) == {f \in Flows : flows[f].phase # "idle" /\ flows[f].cur = cur}
InPhase(cur, phase) == \E f \in FlowsOn(cur) : flows[f].phase = phase

Ev(kind, cur, threw) == [kind |-> kind, cur |-> cur, threw |-> threw]

\* The operation has called back: the flow is over
Finished(fl) == [IdleFlow EXCEPT !.out = fl.out]

\* A clone that keeps the state object of its source
CloneStateRefShared(srcRef) == srcRef

\* The state object a clone gets: cursor.state = _.cloneDeep(self.state), a new
\* object holding copies (req is put back by reference)
CloneStateRef(srcRef) == CHOOSE r \in Refs : r # srcRef

\* cursor = self.clone(), bound to dst
Clone(src, dst) ==
  /\ Exists(src)
  /\ src # dst
  /\ FlowsOn(dst) = {}
  /\ LET r == CloneStateRef(stateRef[src])
     IN /\ heap' = [heap EXCEPT ![r] = heap[stateRef[src]]]
        /\ stateRef' = [stateRef EXCEPT ![dst] = r]
  /\ finalized' = [finalized EXCEPT ![dst] = FALSE]
  /\ finDone' = [finDone EXCEPT ![dst] = FALSE]
  /\ passes' = [passes EXCEPT ![dst] = 0]
  /\ lastQuery' = [lastQuery EXCEPT ![dst] = Undef]
  /\ event' = Ev("clone", dst, FALSE)
  /\ UNCHANGED <<flows, composeVars, joinVars>>

\* Whether the filter method refuses the call (it throws)
Refuses(isFinalized) == isFinalized

\* self[name](args...): the chainable filter method addFilter builds
CallFilter(cur, name, args) ==
  /\ Exists(cur)
  /\ ~InPhase(cur, "fin")
  /\ IF Refuses(finalized[cur])
     THEN /\ event' = Ev("call", cur, TRUE)
          /\ UNCHANGED heap
     ELSE /\ heap' = [heap EXCEPT ![stateRef[cur]] = ApplySet(@, name, args)]
          /\ event' = Ev("call", cur, FALSE)
  /\ UNCHANGED <<stateRef, finalized, flows, lastQuery, finDone, passes, composeVars, joinVars>>

\* A series that skips every other finalizer
NextFinalizerPosSkipping(pos) == pos + 2

\* The finalizer run after the one at position pos has called back without error
NextFinalizerPos(pos) == pos + 1

\* Bound: how many finalize passes are started on one cursor
MaxPasses == 2

\* self.finalize(callback) is entered by flow f on a cursor in state st:
\* an already finalized cursor calls back at once; otherwise async.series
\* starts the pass by running the first finalizer.
EnterFinalize(f, cur, st, fl) ==
  IF finalized[cur]
  THEN /\ heap' = [heap EXCEPT ![stateRef[cur]] = st]
       /\ flows' = [flows EXCEPT ![f] = [fl EXCEPT !.phase = "query", !.pos = 0, !.ran = <<>>]]
       /\ UNCHANGED passes
  ELSE /\ passes[cur] < MaxPasses
       /\ heap' = [heap EXCEPT ![stateRef[cur]] = Finalizer(FilterOrder[1], st)]
       /\ flows' = [flows EXCEPT ![f] =
                      [fl EXCEPT !.phase = "fin", !.pos = 1, !.ran = <<FilterOrder[1]>>,
                                 !.pre = st]]
       /\ passes' = [passes EXCEPT ![cur] = @ + 1]

TerminalOps == {"toArray", "toObject", "toMongo"}

\* toArray / toObject / toMongo is called on cur. toObject first saves limit
\* and sets it to 1 with self.set.
StartOp(f, cur, op) ==
  /\ Exists(cur)
  /\ flows[f].phase = "idle"
  /\ LET st0 == StateOf(cur)
         st1 == IF op = "toObject" THEN Set(st0, "limit", Num(1)) ELSE st0
         fl == [IdleFlow EXCEPT !.op = op, !.cur = cur,
                                !.savedLimit = IF op = "toObject" THEN Get(st0, "limit") ELSE Undef]
     IN EnterFinalize(f, cur, st1, fl)
  /\ event' = Ev("step", cur, FALSE)
  /\ UNCHANGED <<stateRef, finalized, lastQuery, finDone, composeVars, joinVars>>

\* A finalize that hands 'refinalize' to its caller like any other error
SeriesEndSurfacing(sig) == IF sig = "ok" THEN "on" ELSE "fail"

\* What finalize does when a finalizer has handed sig to the series: with
\* 'refinalize' it starts over, with another error it calls back with it,
\* and else the series goes on
SeriesEnd(sig) ==
  IF sig = "refinalize" THEN "restart" ELSE IF sig = "err" THEN "fail" ELSE "on"

\* The finalize of the finalizer at flows[f].pos ends with out, and the
\* callback of the series is called with sig
FinCallback(f) ==
  /\ flows[f].phase = "fin"
  /\ \E out \in FinalizeOutcomes(FilterOrder[flows[f].pos], StateOf(flows[f].cur)) :
       LET fl == [flows[f] EXCEPT !.out = out]
           cur == fl.cur
           st == StateOf(cur)
           sig == Delivered(FilterOrder[fl.pos], out)
       IN CASE SeriesEnd(sig) = "fail" ->
                 /\ flows' = [flows EXCEPT ![f] = Finished(fl)]
                 /\ event' = Ev("err", cur, FALSE)
                 /\ UNCHANGED <<heap, finalized, finDone, passes>>
            [] SeriesEnd(sig) = "restart" ->
                 /\ EnterFinalize(f, cur, st, fl)
                 /\ event' = Ev("step", cur, FALSE)
                 /\ UNCHANGED <<finalized, finDone>>
            [] SeriesEnd(sig) = "on" /\ fl.pos < NFilters ->
                 LET n == NextFinalizerPos(fl.pos)
                 IN /\ heap' = [heap EXCEPT ![stateRef[cur]] = Finalizer(FilterOrder[n], st)]
                    /\ flows' = [flows EXCEPT ![f] =
                                   [fl EXCEPT !.pos = n, !.ran = Append(@, FilterOrder[n])]]
                    /\ event' = Ev("step", cur, FALSE)
                    /\ UNCHANGED <<finalized, finDone, passes>>
            [] SeriesEnd(sig) = "on" /\ fl.pos >= NFilters ->
                 /\ finalized' = [finalized EXCEPT ![cur] = TRUE]
                 /\ finDone' = [finDone EXCEPT ![cur] = TRUE]
                 /\ flows' = [flows EXCEPT ![f] = [fl EXCEPT !.phase = "query"]]
                 /\ event' = Ev("finalized", cur, FALSE)
                 /\ UNCHANGED <<heap, passes>>
  /\ UNCHANGED <<stateRef, lastQuery, composeVars, joinVars>>

\* A filter value as the store option toMongo applies: skip and limit only
\* when _.isNumber
NumberOrNone(v) == IF IsNumber(v) THEN v ELSE Undef

\* The criteria toMongo hands to the store: late criteria are assigned into
\* the criteria object
MongoCriteria(st) ==
  IF Truthy(Get(st, "lateCriteria")) /\ IsObj(Get(st, "criteria"))
  THEN Assign(Get(st, "criteria"), Get(st, "lateCriteria"))
  ELSE Get(st, "criteria")

\* The query toMongo builds from the cursor state
MongoQuery(st) ==
  [criteria |-> MongoCriteria(st),
   projection |-> Get(st, "projection"),
   skip |-> NumberOrNone(Get(st, "skip")),
   limit |-> NumberOrNone(Get(st, "limit")),
   sort |-> Get(st, "sortMongo")]

\* The second step of toMongo; toArray goes on to the store's toArray
Query(f) ==
  /\ flows[f].phase = "query"
  /\ LET fl == flows[f]
         cur == fl.cur
         st == StateOf(cur)
     IN /\ heap' = [heap EXCEPT ![stateRef[cur]] = Set(st, "criteria", MongoCriteria(st))]
        /\ lastQuery' = [lastQuery EXCEPT ![cur] = MongoQuery(st)]
        /\ flows' = [flows EXCEPT ![f] =
                       IF fl.op = "toMongo" THEN Finished(fl)
                       ELSE IF fl.op = "toCount" THEN [fl EXCEPT !.phase = "count"]
                       ELSE [fl EXCEPT !.phase = "store"]]
        /\ event' = Ev(IF fl.op = "toMongo" THEN "done" ELSE "query", cur, FALSE)
  /\ UNCHANGED <<stateRef, finalized, finDone, passes, composeVars, joinVars>>

\* A document: its _id and its slug
Doc(id, slug) == Obj(<< <<"_id", Str(id)>>, <<"slug", Str(slug)>> >>)

\* The documents of the store that match, in the order the store yields them
StoreDocs == <<Doc("d2", "s2"), Doc("d1", "s1"), Doc("d3", "s3")>>

\* What the store's toArray yields for a query: skip and limit applied to the
\* matching documents
Fetched(q) ==
  LET n == Len(StoreDocs)
      from == IF IsNumber(q.skip) THEN q.skip[2] ELSE 0
      upto == IF IsNumber(q.limit) /\ q.limit[2] > 0 /\ from + q.limit[2] < n
              THEN from + q.limit[2] ELSE n
  IN SubSeq(StoreDocs, from + 1, upto)

\* mongoToArray: mongo.toArray(callback, function(err, results) { ... }) hands
\* the callback itself to the store, which calls it with its results; the
\* function passed second, where explicitOrder is looked at, is not called
MongoToArray(st, results) == Arr(results)

\* What the terminal operation hands its callback when the after pass is over
ResultOf(op, out, results) ==
  IF out # "ok" THEN Undef
  ELSE IF op = "toObject"
  THEN (IF results[2] = <<>> THEN Undef ELSE results[2][1])
  ELSE results

\* The store's toArray calls back. With results, self.after begins: it saves
\* _finalized, clears it and runs the first after hook.
StoreReturn(f) ==
  /\ flows[f].phase = "store"
  /\ LET fl == flows[f]
         cur == fl.cur
         st == StateOf(cur)
     IN \E r \in {"ok", "err"} :
          IF r = "err"
          THEN /\ flows' = [flows EXCEPT ![f] = Finished(fl)]
               /\ event' = Ev("err", cur, FALSE)
               /\ UNCHANGED <<heap, finalized>>
          ELSE /\ finalized' = [finalized EXCEPT ![cur] = FALSE]
               /\ heap' = [heap EXCEPT ![stateRef[cur]] = AfterHook(FilterOrder[1], st)]
               /\ flows' = [flows EXCEPT ![f] =
                              [fl EXCEPT !.phase = "after", !.pos = 1, !.origFin = finalized[cur],
                                         !.result = MongoToArray(st, Fetched(lastQuery[cur]))]]
               /\ event' = Ev("step", cur, FALSE)
  /\ UNCHANGED <<stateRef, lastQuery, finDone, passes, composeVars, joinVars>>

\* What _finalized is when the after pass has ended with outcome out
FinalizedAfterPass(out, origFin, current) == IF out = "ok" THEN origFin ELSE current

\* The limit toObject leaves when toArray has called back
LimitAfterToObject(out, savedLimit, current) == IF out = "ok" THEN savedLimit ELSE current

\* The callback of the after hook at flows[f].pos is called with sig
AfterCallback(f) ==
  /\ flows[f].phase = "after"
  /\ LET fl == flows[f]
         cur == fl.cur
         st == StateOf(cur)
         end(out) ==
           /\ finalized' = [finalized EXCEPT ![cur] = FinalizedAfterPass(out, fl.origFin, @)]
           /\ heap' = [heap EXCEPT ![stateRef[cur]] =
                         IF fl.op = "toObject"
                         THEN Set(st, "limit", LimitAfterToObject(out, fl.savedLimit, Get(st, "limit")))
                         ELSE st]
           /\ flows' = [flows EXCEPT ![f] =
                          [Finished(fl) EXCEPT !.result = ResultOf(fl.op, out, fl.result)]]
     IN \E sig \in AfterSignals(FilterOrder[fl.pos], st) :
          CASE sig = "err" ->
                 /\ end("err")
                 /\ event' = Ev("err", cur, FALSE)
            [] sig = "ok" /\ fl.pos < NFilters ->
                 /\ heap' = [heap EXCEPT ![stateRef[cur]] = AfterHook(FilterOrder[fl.pos + 1], st)]
                 /\ flows' = [flows EXCEPT ![f] = [fl EXCEPT !.pos = fl.pos + 1]]
                 /\ event' = Ev("step", cur, FALSE)
                 /\ UNCHANGED finalized
            [] sig = "ok" /\ fl.pos >= NFilters ->
                 /\ end("ok")
                 /\ event' = Ev("done", cur, FALSE)
  /\ UNCHANGED <<stateRef, lastQuery, finDone, passes, composeVars, joinVars>>

----------------------------------------------------------------------------
(* Specifications of the cursor *)

\* Bound: how many $and levels the criteria may have for a caller's and() to be
\* let through
MaxAnd == 1

RECURSIVE AndDepth(_)
AndDepth(c) ==
  IF IsObj(c) /\ ObjHas(c, "$and") THEN 1 + AndDepth(ObjGet(c, "$and")[2][1]) ELSE 0

\* handleFindArguments: req, criteria and projection are set when given
HandleFindArguments(req, criteria) ==
  LET st1 == Set(EmptyState, "req", req)
  IN IF Truthy(criteria) THEN Set(st1, "criteria", criteria) ELSE st1

ComposeIdle == cfg = <<>> /\ schema = <<>> /\ prevSchema = <<>>
JoinIdle == jschema = <<>> /\ jcalls = <<>> /\ jin = <<>>

\* Cursor c as find(req, criteria) constructs it; c2 is not yet made
CursorInit(findCriteria) ==
  /\ \E criteria \in findCriteria :
       heap = [r \in Refs |-> IF r = "r1" THEN HandleFindArguments(Str("req"), criteria)
                              ELSE EmptyState]
  /\ stateRef = [cur \in Cursors |-> IF cur = "c" THEN "r1" ELSE NoRef]
  /\ finalized = [cur \in Cursors |-> FALSE]
  /\ flows = [f \in Flows |-> IdleFlow]
  /\ lastQuery = [cur \in Cursors |-> Undef]
  /\ finDone = [cur \in Cursors |-> FALSE]
  /\ passes = [cur \in Cursors |-> 0]
  /\ event = Ev("init", "c", FALSE)

\* A caller's filter call; and() is bounded by MaxAnd
UserCall(cur, call) ==
  /\ call[1] = "and" => Exists(cur) /\ AndDepth(Get(StateOf(cur), "criteria")) < MaxAnd
  /\ CallFilter(cur, call[1], call[2])

\* Each cursor is used by one flow of control at a time
FlowFor(cur) == IF cur = "c" THEN "f1" ELSE "f2"

Quiet == \A f \in Flows : flows[f].phase = "idle"

\* The steps of the cursor c used by one flow of control: the caller's filter
\* calls, made before a terminal operation or while an after pass runs (at any
\* other point of an operation the cursor is finalized and refuses them), and
\* the steps of the terminal operations.
CursorNext(calls, ops) ==
  \/ \E call \in calls : UserCall("c", call)
  \/ \E op \in ops : StartOp("f1", "c", op)
  \/ FinCallback("f1")
  \/ Query("f1")
  \/ StoreReturn("f1")
  \/ AfterCallback("f1")

\* Spec: the life of one cursor
Calls ==
  {<<"and", <<Cond("b", Num(2))>>>>,
   <<"limit", <<Num(5)>>>>,
   <<"autocomplete", <<Str("x")>>>>}

Init == CursorInit({Undef, Cond("a", Num(1))}) /\ ComposeIdle /\ JoinIdle

Next == CursorNext(Calls, TerminalOps)

Spec == Init /\ [][Next]_vars

----------------------------------------------------------------------------
(* Claims checked under Spec *)

\* The flow of control carrying out the last step's cursor's operation
PassCompleted(f) ==
  /\ flows[f].phase = "query"
  /\ flows[f].ran = FilterOrder
  /\ event.kind = "finalized"

\* The criteria at the bottom of the $and wrappers
RECURSIVE Innermost(_)
Innermost(c) ==
  IF IsObj(c) /\ ObjHas(c, "$and") THEN Innermost(ObjGet(c, "$and")[2][1]) ELSE c

\* C2 as stated: once a finalize pass has completed on a cursor and no after
\* pass is in progress on it, a call of a filter method throws and changes no
\* state value.
C2_FilterCallRefused ==
  [][(event'.kind = "call" /\ finDone[event'.cur] /\ ~InPhase(event'.cur, "after"))
       => (event'.threw /\ heap' = heap)]_vars

\* The finalizers run so far in a pass are the first ones in registration order,
\* each once; a pass that completes has run them all; and a filter that was
\* undefined when the pass began has been given its default.
FinalizeOrderInv ==
  \A f \in Flows :
    LET fl == flows[f]
    IN /\ fl.phase = "fin" =>
            /\ fl.pos \in 1..NFilters
            /\ fl.ran = SubSeq(FilterOrder, 1, fl.pos)
       /\ fl.phase = "query" => fl.ran \in {<<>>, FilterOrder}
       /\ PassCompleted(f) =>
            /\ \A name \in {"page", "published", "joins", "addUrls"} :
                 fl.pre[name] = Undef => StateOf(fl.cur)[name] = FilterDef(name)
            /\ fl.pre["criteria"] = Undef => Innermost(StateOf(fl.cur)["criteria"]) = EmptyObj

\* finalize on a finalized cursor: no finalizer runs, no pass is counted, the
\* flags stay, and the operation goes on to build its query
FinalizeSkipStep ==
  \A f \in Flows :
    (flows[f].phase = "idle" /\ flows'[f].phase # "idle" /\ finalized[flows'[f].cur])
      => /\ flows'[f].phase = "query"
         /\ flows'[f].ran = <<>>
         /\ passes' = passes
         /\ finalized' = finalized

\* C3: in every finalize pass the finalizers run one at a time in registration
\* order, each once (a pass that an error or 'refinalize' cuts short has run a
\* prefix of them, a pass that completes has run all); an undefined filter is
\* first called with its default; finalize on a finalized cursor runs none and
\* succeeds.
C3_FinalizeOrder == [](FinalizeOrderInv) /\ [][FinalizeSkipStep]_vars

\* A second pass, begun by 'refinalize', has completed, and a later operation
\* on the cursor, which that pass left finalized, has gone straight to its query
C3_Witness ==
  \E f \in Flows :
    /\ flows[f].phase = "query"
    /\ flows[f].ran = <<>>
    /\ finalized[flows[f].cur]
    /\ passes[flows[f].cur] = 2

----------------------------------------------------------------------------
(* SpecPage: one cursor whose caller sets skip, limit, perPage and page *)

CallsPage ==
  {<<"skip", <<Num(7)>>>>, <<"limit", <<Num(5)>>>>, <<"perPage", <<Num(2)>>>>,
   <<"perPage", <<Num(0)>>>>, <<"page", <<Num(1)>>>>, <<"page", <<Num(3)>>>>}

InitPage == CursorInit({Undef}) /\ ComposeIdle /\ JoinIdle
NextPage == CursorNext(CallsPage, {"toArray", "toMongo"})
SpecPage == InitPage /\ [][NextPage]_vars

\* C4: when a finalize pass completes on a cursor whose perPage was n > 0 and
\* whose page was p (1 when never set) as the pass began, skip is (p - 1) * n
\* and limit is n; when perPage was unset, skip and limit are as they were.
C4_PerPage ==
  \A f \in Flows :
    PassCompleted(f) =>
      LET pre == flows[f].pre
          st == StateOf(flows[f].cur)
          n == pre["perPage"]
          p == IF pre["page"] = Undef THEN 1 ELSE pre["page"][2]
      IN /\ (IsNumber(n) /\ n[2] > 0) =>
              /\ st["skip"] = Num((p - 1) * n[2])
              /\ st["limit"] = n
         /\ n = Undef =>
              /\ st["skip"] = pre["skip"]
              /\ st["limit"] = pre["limit"]

\* A pass has completed on a cursor with perPage 2, page 3 and a skip and a
\* limit of the caller's: skip and limit are now 4 and 2
C4_Witness ==
  \E f \in Flows :
    /\ PassCompleted(f)
    /\ flows[f].pre["perPage"] = Num(2)
    /\ flows[f].pre["page"] = Num(3)
    /\ flows[f].pre["skip"] = Num(7)
    /\ flows[f].pre["limit"] = Num(5)
    /\ StateOf(flows[f].cur)["skip"] = Num(4)

----------------------------------------------------------------------------
(* SpecTrash: one cursor whose caller sets trash and adds criteria *)

CallsTrash ==
  {<<"trash", <<Bool(TRUE)>>>>, <<"trash", <<Bool(FALSE)>>>>, <<"trash", <<Null>>>>,
   <<"and", <<Cond("b", Num(2))>>>>}

InitTrash == CursorInit({Undef, Cond("a", Num(1))}) /\ ComposeIdle /\ JoinIdle
NextTrash == CursorNext(CallsTrash, {"toArray", "toMongo"})
SpecTrash == InitTrash /\ [][NextTrash]_vars

\* The conditions a criteria object ANDs together
RECURSIVE Conjuncts(_)
Conjuncts(c) ==
  IF IsObj(c) /\ ObjHas(c, "$and")
  THEN Conjuncts(ObjGet(c, "$and")[2][1]) \cup Conjuncts(ObjGet(c, "$and")[2][2])
  ELSE {c}

\* C5: when a finalize pass completes, the criteria of a cursor on which
\* trash(false) was called, or trash never called, are those the pass gives the
\* same cursor with trash(false) and with trash never called, and they AND the
\* prior criteria with (trash absent OR trash = false); with trash(true) they
\* AND trash = true instead; with trash(null) the pass adds neither condition.
C5_Trash ==
  \A f \in Flows :
    PassCompleted(f) =>
      LET pre == flows[f].pre
          trash == pre["trash"]
          criteria == StateOf(flows[f].cur)["criteria"]
          conds == Conjuncts(criteria)
          prior == IF Truthy(pre["criteria"]) THEN Conjuncts(pre["criteria"]) ELSE {}
          isTrash == Cond("trash", Bool(TRUE))
          added(c) == c \in conds
          notAdded(c) == c \in conds => c \in prior
      IN /\ prior \subseteq conds
         /\ trash \in {Undef, Bool(FALSE)} =>
              /\ criteria = FinalizePass(Set(pre, "trash", Bool(FALSE)))["criteria"]
              /\ criteria = FinalizePass(Set(pre, "trash", Undef))["criteria"]
              /\ added(TrashAbsentOrFalse)
              /\ notAdded(isTrash)
         /\ trash = Bool(TRUE) => added(isTrash) /\ notAdded(TrashAbsentOrFalse)
         /\ trash = Null => notAdded(isTrash) /\ notAdded(TrashAbsentOrFalse)

\* A pass has completed on a cursor with criteria of the caller's on which
\* trash was never called
C5_Witness ==
  \E f \in Flows :
    /\ PassCompleted(f)
    /\ flows[f].pre["trash"] = Undef
    /\ flows[f].pre["criteria"] = AndC(Cond("a", Num(1)), Cond("b", Num(2)))
    /\ TrashAbsentOrFalse \in Conjuncts(StateOf(flows[f].cur)["criteria"])

----------------------------------------------------------------------------
(* SpecClone: cursor c and its clone c2, each used by its own flow of control;
   one terminal operation runs at a time, and filter calls on the clone may
   come between its steps *)

CallsClone == {<<"and", <<Cond("b", Num(2))>>>>, <<"limit", <<Num(5)>>>>}

InitClone == CursorInit({Cond("a", Num(1))}) /\ ComposeIdle /\ JoinIdle

NextClone ==
  \/ Clone("c", "c2")
  \/ \E call \in CallsClone : UserCall("c2", call)
  \/ \E cur \in Cursors : Quiet /\ StartOp(FlowFor(cur), cur, "toArray")
  \/ \E f \in Flows : FinCallback(f)
  \/ \E f \in Flows : Query(f)
  \/ \E f \in Flows : StoreReturn(f)
  \/ \E f \in Flows : AfterCallback(f)

SpecClone == InitClone /\ [][NextClone]_vars

\* C1: every step taken on the clone c2 (the clone itself, a filter call, a
\* step of a terminal operation) leaves the filter values of c, its finalized
\* flag and the store query it last issued as they were, and the clone's state
\* is at first equal to c's, request context included; so the query a later
\* operation on c issues, which is computed from c's values alone, is the one it
\* would issue had the clone never been made.
C1_CloneIsolation ==
  [][/\ event'.cur = "c2" =>
          /\ StateOf("c")' = StateOf("c")
          /\ finalized'["c"] = finalized["c"]
          /\ lastQuery'["c"] = lastQuery["c"]
     /\ event'.kind = "clone" => StateOf("c2")' = StateOf("c")
     /\ (event'.kind = "query" /\ event'.cur = "c") =>
          lastQuery'["c"] = MongoQuery(StateOf("c"))]_vars

\* The clone has been given criteria and a limit that c does not have, and has
\* issued its own query
C1_Witness ==
  /\ Exists("c2")
  /\ finDone["c2"]
  /\ StateOf("c2")["limit"] = Num(5)
  /\ StateOf("c")["limit"] = Undef
  /\ StateOf("c")["criteria"] = Cond("a", Num(1))

----------------------------------------------------------------------------
(* The schema engine: compose and refine *)

\* A property that is not there (group.name of a record without a name)
NoName == ""

\* A field without a group property
NoGroup == [set |-> FALSE, name |-> NoName, last |-> FALSE]

\* A field definition as a caller writes it; ver tells two definitions of the
\* same name apart
Field(name, ver) ==
  [name |-> name, ver |-> ver, required |-> FALSE, contextual |-> FALSE, group |-> NoGroup]

\* An element of arrangeFields: the string name, or a group record
NameItem(name) == [isName |-> TRUE, name |-> name, last |-> FALSE, fields |-> <<>>]
GroupItem(name, last, fields) == [isName |-> FALSE, name |-> name, last |-> last, fields |-> fields]

\* _.findIndex(seq, { name: name }), from 1; 0 when there is none
RECURSIVE FindIndexFrom(_, _, _)
FindIndexFrom(seq, name, i) ==
  IF i > Len(seq) THEN 0
  ELSE IF seq[i].name = name THEN i
  ELSE FindIndexFrom(seq, name, i + 1)

FindIndex(seq, name) == FindIndexFrom(seq, name, 1)

\* _.findIndex(groups, { last: true }), from 1; 0 when there is none
RECURSIVE FindLastFlagFrom(_, _)
FindLastFlagFrom(groups, i) ==
  IF i > Len(groups) THEN 0
  ELSE IF groups[i].last THEN i
  ELSE FindLastFlagFrom(groups, i + 1)

\* seq.splice(i - 1, 1)
RemoveAt(seq, i) == SubSeq(seq, 1, i - 1) \o SubSeq(seq, i + 1, Len(seq))

\* seq.splice(i, 0, x) for the 0-based index i: past the end, x is appended
InsertAt(seq, i, x) ==
  IF i >= Len(seq) THEN Append(seq, x)
  ELSE SubSeq(seq, 1, i) \o <<x>> \o SubSeq(seq, i + 1, Len(seq))

\* The splice of the element named name, when there is one
RemoveName(seq, name) ==
  LET i == FindIndex(seq, name) IN IF i = 0 THEN seq ELSE RemoveAt(seq, i)

\* An add that overwrites the earlier definition where it stands
AddFieldInPlace(sch, field) ==
  LET i == FindIndex(sch, field.name)
  IN IF i = 0 THEN Append(sch, field) ELSE [sch EXCEPT ![i] = field]

\* One turn of the addFields loop: the last definition wins
AddField(sch, field) == Append(RemoveName(sch, field.name), field)

RECURSIVE AddFieldsFrom(_, _, _)
AddFieldsFrom(sch, fields, i) ==
  IF i > Len(fields) THEN sch
  ELSE AddFieldsFrom(AddField(sch, fields[i]), fields, i + 1)

AddFields(fields) == AddFieldsFrom(<<>>, fields, 1)

RemoveFields(sch, names) == SelectSeq(sch, LAMBDA f : f.name \notin Range(names))

\* requireFields adding a required field for every name that no field has
RequireFieldsAdding(sch, names) ==
  LET missing == SelectSeq(names, LAMBDA n : \A i \in DOMAIN sch : sch[i].name # n)
  IN [i \in DOMAIN sch |->
        IF sch[i].name \in Range(names) THEN [sch[i] EXCEPT !.required = TRUE] ELSE sch[i]]
       \o [k \in DOMAIN missing |-> [Field(missing[k], 1) EXCEPT !.required = TRUE]]

RequireFields(sch, names) ==
  [i \in DOMAIN sch |->
     IF sch[i].name \in Range(names) THEN [sch[i] EXCEPT !.required = TRUE] ELSE sch[i]]

\* defaultGroup.name || 'default'
DefaultGroupName(defaultGroup) == IF defaultGroup = NoName THEN "default" ELSE defaultGroup

\* An element of arrangeFields read as a group: a string has no name, no
\* fields and no last flag
AsGroup(item) ==
  IF item.isName THEN [name |-> NoName, last |-> FALSE, fields |-> <<>>]
  ELSE [name |-> item.name, last |-> item.last, fields |-> item.fields]

\* An element of arrangeFields read as a field name: a record matches no field
AsFieldName(item) == IF item.isName THEN item.name ELSE NoName

\* The groups before merging: the default group, then the arranged ones
InitialGroups(defaultGroup, sch, arrangeFields) ==
  LET def == [name |-> DefaultGroupName(defaultGroup), last |-> FALSE,
              fields |-> [i \in DOMAIN sch |-> sch[i].name]]
  IN IF Len(arrangeFields) = 0 THEN <<def>>
     ELSE IF arrangeFields[1].isName
     THEN <<[def EXCEPT !.fields = [i \in DOMAIN arrangeFields |-> AsFieldName(arrangeFields[i])]]>>
     ELSE <<[def EXCEPT !.fields = <<>>]>> \o [i \in DOMAIN arrangeFields |-> AsGroup(arrangeFields[i])]

\* One turn of the newGroups loop: a later group of the same name replaces the
\* earlier one, and goes before the first group flagged last
MergeGroup(newGroups, group, groupsLength) ==
  LET kept == RemoveName(newGroups, group.name)
      l == FindLastFlagFrom(kept, 1)
      i == IF l = 0 THEN groupsLength ELSE l - 1
  IN InsertAt(kept, i, group)

RECURSIVE MergeGroupsFrom(_, _, _)
MergeGroupsFrom(newGroups, groups, i) ==
  IF i > Len(groups) THEN newGroups
  ELSE MergeGroupsFrom(MergeGroup(newGroups, groups[i], Len(groups)), groups, i + 1)

MergeGroups(groups) == MergeGroupsFrom(<<>>, groups, 1)

\* g = _.clone(group, true); delete g.fields
GroupAnnotation(group) == [set |-> TRUE, name |-> group.name, last |-> group.last]

\* One turn of the inner loop over group.fields. st holds the two arrays the
\* loop works on: schema (fields not yet placed) and newSchema (placed ones).
PlaceField(st, group, fieldName) ==
  LET i == FindIndex(st.schema, fieldName)
      j == FindIndex(st.newSchema, fieldName)
  IN IF i = 0 /\ j = 0 THEN st
     ELSE LET f == IF i # 0 THEN st.schema[i] ELSE st.newSchema[j]
              placed == [f EXCEPT !.group = GroupAnnotation(group)]
          IN [schema |-> RemoveName(st.schema, fieldName),
              newSchema |-> Append(RemoveName(st.newSchema, fieldName), placed)]

RECURSIVE PlaceFieldsFrom(_, _, _)
PlaceFieldsFrom(st, group, k) ==
  IF k > Len(group.fields) THEN st
  ELSE PlaceFieldsFrom(PlaceField(st, group, group.fields[k]), group, k + 1)

RECURSIVE PlaceGroupsFrom(_, _, _)
PlaceGroupsFrom(st, groups, i) ==
  IF i > Len(groups) THEN st
  ELSE PlaceGroupsFrom(PlaceFieldsFrom(st, groups[i], 1), groups, i + 1)

\* The fields no group names are given the annotation of groups[0] and go
\* after the placed ones
WithRemaining(st, groups) ==
  st.newSchema \o
    [i \in DOMAIN st.schema |-> [st.schema[i] EXCEPT !.group = GroupAnnotation(groups[1])]]

\* One turn of the loop that makes the fields of a group consecutive.
\* acc.newSchema is the array built so far, acc.groupIndexes maps a group name
\* to the 0-based index after the last field of that group.
Consecutive(acc, field) ==
  IF field.group.set /\ field.group.name # NoName
  THEN LET name == field.group.name
       IN IF name \in DOMAIN acc.groupIndexes
          THEN [newSchema |-> InsertAt(acc.newSchema, acc.groupIndexes[name], field),
                groupIndexes |-> [acc.groupIndexes EXCEPT ![name] = @ + 1]]
          ELSE [newSchema |-> Append(acc.newSchema, field),
                groupIndexes |->
                  [n \in DOMAIN acc.groupIndexes \cup {name} |->
                     IF n = name THEN Len(acc.newSchema) + 1 ELSE acc.groupIndexes[n]]]
  ELSE acc

\* A loop that leaves the fields where they are
MakeConsecutiveNot(sch) == sch

RECURSIVE ConsecutiveFrom(_, _, _)
ConsecutiveFrom(acc, sch, i) ==
  IF i > Len(sch) THEN acc.newSchema
  ELSE ConsecutiveFrom(Consecutive(acc, sch[i]), sch, i + 1)

MakeConsecutive(sch) ==
  ConsecutiveFrom([newSchema |-> <<>>, groupIndexes |-> [n \in {} |-> 0]], sch, 1)

\* The name the last step of compose looks for
MovedGroupName == "default"

\* The fields of the group named name go to the end
MoveToEnd(sch, name) ==
  SelectSeq(sch, LAMBDA f : ~(f.group.set /\ f.group.name = name))
    \o SelectSeq(sch, LAMBDA f : f.group.set /\ f.group.name = name)

NoOptions == [addFields |-> <<>>, removeFields |-> <<>>, requireFields |-> <<>>,
              arrangeFields |-> <<>>]

\* self.compose(options), for a module configured with defaultGroup
compose(defaultGroup, options) ==
  LET added == AddFields(options.addFields)
      removed == RemoveFields(added, options.removeFields)
      required == RequireFields(removed, options.requireFields)
      groups == MergeGroups(InitialGroups(defaultGroup, required, options.arrangeFields))
      st == PlaceGroupsFrom([schema |-> required, newSchema |-> <<>>], groups, 1)
      all == WithRemaining(st, groups)
  IN MoveToEnd(MakeConsecutive(all), MovedGroupName)

\* A refine that forgets the groups of the schema it is given
OldArrangeForgotten(old, field) == old

\* One turn of the loop of refine that rebuilds arrangeFields from the group
\* annotations of the fields
OldArrange(old, field) ==
  IF ~field.group.set THEN old
  ELSE LET i == FindIndex(old, field.group.name)
       IN IF i = 0
          THEN Append(old, GroupItem(field.group.name, field.group.last, <<field.name>>))
          ELSE [old EXCEPT ![i].fields = Append(@, field.name)]

RECURSIVE OldArrangeFieldsFrom(_, _, _)
OldArrangeFieldsFrom(old, sch, i) ==
  IF i > Len(sch) THEN old
  ELSE OldArrangeFieldsFrom(OldArrange(old, sch[i]), sch, i + 1)

OldArrangeFields(sch) == OldArrangeFieldsFrom(<<>>, sch, 1)

\* self.refine(schema, options)
refine(defaultGroup, sch, options) ==
  compose(defaultGroup,
          [options EXCEPT !.addFields = sch \o @,
                          !.arrangeFields = OldArrangeFields(sch) \o @])

\* The options of compose as the call leaves them. The fields of the result
\* are the objects handed in addFields, the last of each name, so what compose
\* writes on them (required, group) is written on the caller's objects; the
\* group records are only read, the annotations being made from clones.
ComposeLeaves(defaultGroup, options) ==
  LET result == compose(defaultGroup, options)
      add == options.addFields
      isLast(i) == \A j \in DOMAIN add : add[j].name = add[i].name => j <= i
  IN [options EXCEPT
        !.addFields =
           [i \in DOMAIN add |->
              IF isLast(i) /\ FindIndex(result, add[i].name) # 0
              THEN result[FindIndex(result, add[i].name)]
              ELSE add[i]]]

\* The inputs of refine as the call leaves them: compose works on the copies
\* of the fields of the schema (_.cloneDeep) and on the objects of
\* options.addFields themselves (_.clone(_options) is shallow)
RefineLeaves(defaultGroup, sch, options) ==
  LET old == OldArrangeFields(sch)
      left == ComposeLeaves(defaultGroup,
                            [options EXCEPT !.addFields = sch \o @,
                                            !.arrangeFields = old \o @])
  IN [options EXCEPT
        !.addFields = SubSeq(left.addFields, Len(sch) + 1, Len(left.addFields)),
        !.arrangeFields = SubSeq(left.arrangeFields, Len(old) + 1, Len(left.arrangeFields))]

\* The module as configured: defaultGroup.name, NoName when not configured
ComposeInit(defaultGroups) ==
  /\ \E d \in defaultGroups : cfg = [defaultGroup |-> d, op |-> "none", options |-> NoOptions, names |-> <<>>,
              left |-> NoOptions]
  /\ schema = <<>>
  /\ prevSchema = <<>>

\* No cursor step is taken
CursorIdle == CursorInit({Undef})

\* schema = self.compose(options)
CallCompose(options) ==
  /\ schema' = compose(cfg.defaultGroup, options)
  /\ prevSchema' = <<>>
  /\ cfg' = [cfg EXCEPT !.op = "compose", !.options = options,
                         !.left = ComposeLeaves(cfg.defaultGroup, options)]
  /\ UNCHANGED <<cursorVars, joinVars>>

\* schema = self.refine(schema, options)
CallRefine(options) ==
  /\ schema' = refine(cfg.defaultGroup, schema, options)
  /\ prevSchema' = schema
  /\ cfg' = [cfg EXCEPT !.op = "refine", !.options = options,
                         !.left = RefineLeaves(cfg.defaultGroup, schema, options)]
  /\ UNCHANGED <<cursorVars, joinVars>>

\* All sequences over S of length at most n
RECURSIVE SeqsUpTo(_, _)
SeqsUpTo(S, n) ==
  IF n = 0 THEN {<<>>}
  ELSE LET shorter == SeqsUpTo(S, n - 1)
       IN shorter \cup {Append(q, x) : q \in shorter, x \in S}

FieldNames == {"a", "b", "c"}
DefaultGroups == {NoName, "main"}

----------------------------------------------------------------------------
(* SpecAdd: compose over addFields lists *)

\* Bound: the length of an addFields list
MaxAdd == 3

\* Two definitions of each of two names
FieldDefs == {Field(n, v) : n \in {"a", "b"}, v \in {1, 2}}

InitAdd == CursorIdle /\ ComposeInit(DefaultGroups) /\ JoinIdle
NextAdd == \E fields \in SeqsUpTo(FieldDefs, MaxAdd) :
             CallCompose([NoOptions EXCEPT !.addFields = fields])
SpecAdd == InitAdd /\ [][NextAdd]_vars

\* The position of the last definition of name in an addFields list; 0 if none
LastAdd(fields, name) ==
  LET at == {i \in DOMAIN fields : fields[i].name = name}
  IN IF at = {} THEN 0 ELSE CHOOSE i \in at : \A j \in at : j <= i

\* C6: compose over an addFields list alone yields one field per name added,
\* which is the last definition added under that name, and the fields are in
\* the order of those last definitions in the list.
C6_LastAddWins ==
  (cfg.op = "compose" /\ cfg.options.arrangeFields = <<>>
     /\ cfg.options.removeFields = <<>>) =>
    LET fields == cfg.options.addFields
    IN /\ {schema[k].name : k \in DOMAIN schema} = {fields[i].name : i \in DOMAIN fields}
       /\ \A k \in DOMAIN schema :
            /\ LastAdd(fields, schema[k].name) # 0
            /\ schema[k].ver = fields[LastAdd(fields, schema[k].name)].ver
            /\ \A l \in DOMAIN schema :
                 k < l => LastAdd(fields, schema[k].name) < LastAdd(fields, schema[l].name)

\* addFields [A, B, A'] has given [B, A']
C6_Witness ==
  /\ cfg.op = "compose"
  /\ cfg.options.addFields = <<Field("a", 1), Field("b", 1), Field("a", 2)>>
  /\ Len(schema) = 2
  /\ schema[1].name = "b"
  /\ schema[2].name = "a" /\ schema[2].ver = 2

----------------------------------------------------------------------------
(* SpecArrange: a schema composed from three fields and an arrangeFields
   option, then refined once *)

\* Bound: the number of elements of one arrangeFields option
MaxGroups == 2

\* The group records callers arrange with: three names, one of them the
\* built-in name of the default group; g2 is also given flagged last
GroupRecords ==
  {GroupItem(n, FALSE, fs) : n \in {"g1", "g2", "default"}, fs \in {<<"a">>, <<"b", "a">>}}
    \cup {GroupItem("g2", TRUE, fs) : fs \in {<<"a">>, <<"b", "a">>}}

\* arrangeFields options: lists of group records, and a list of names
Arrangements == SeqsUpTo(GroupRecords, MaxGroups) \cup {<<NameItem("b"), NameItem("a")>>}

BaseFields == <<Field("a", 1), Field("b", 1), Field("c", 1)>>

RefineOptions ==
  {[addFields |-> add, removeFields |-> remove, requireFields |-> <<>>, arrangeFields |-> arr] :
     add \in {<<>>, <<Field("b", 2)>>}, remove \in {<<>>, <<"c">>}, arr \in Arrangements}

InitArrange == CursorIdle /\ ComposeInit(DefaultGroups) /\ JoinIdle

\* The two arrangeFields options together hold at most MaxGroups + 1 elements
NextArrange ==
  \/ /\ cfg.op = "none"
     /\ \E arr \in Arrangements :
          CallCompose([NoOptions EXCEPT !.addFields = BaseFields, !.arrangeFields = arr])
  \/ /\ cfg.op = "compose"
     /\ \E options \in RefineOptions :
          /\ Len(cfg.options.arrangeFields) + Len(options.arrangeFields) <= MaxGroups + 1
          /\ CallRefine(options)

SpecArrange == InitArrange /\ [][NextArrange]_vars

\* C7: each field of the result of compose and of refine carries a group
\* annotation with a name, and the fields of one group name are consecutive.
C7_GroupsContiguous ==
  cfg.op # "none" =>
    /\ \A i \in DOMAIN schema : schema[i].group.set /\ schema[i].group.name # NoName
    /\ \A i, j, k \in DOMAIN schema :
         (i < j /\ j < k /\ schema[i].group.name = schema[k].group.name)
           => schema[j].group.name = schema[i].group.name

\* A refine has given three fields in two groups, the first group holding two
\* of them, one of which no arranged group names
C7_Witness ==
  /\ cfg.op = "refine"
  /\ Len(schema) = 3
  /\ schema[1].group.name = schema[2].group.name
  /\ schema[3].group.name # schema[1].group.name
  /\ "c" \in {schema[1].name, schema[2].name}
  /\ schema[1].group.name # DefaultGroupName(cfg.defaultGroup)

\* C8 as stated: in the result of compose and of refine no field of another
\* group comes after a field of the default group, whatever the default group
\* is named.
C8_DefaultGroupLast ==
  \A i, j \in DOMAIN schema :
    (i < j /\ schema[i].group.name = DefaultGroupName(cfg.defaultGroup))
      => schema[j].group.name = DefaultGroupName(cfg.defaultGroup)

\* The field names an arrangeFields option names, as strings or in group records
ArrangedNames(arrangeFields) ==
  {arrangeFields[i].name : i \in {k \in DOMAIN arrangeFields : arrangeFields[k].isName}}
    \cup UNION {Range(arrangeFields[i].fields) : i \in DOMAIN arrangeFields}

\* The group names the group records of an arrangeFields option declare
ArrangedGroupNames(arrangeFields) ==
  {arrangeFields[i].name : i \in {k \in DOMAIN arrangeFields : ~arrangeFields[k].isName}}

\* The fields of the refined schema that the options of the refine neither add,
\* remove nor name in arrangeFields
Untouched(sch, options) ==
  {i \in DOMAIN sch :
     /\ sch[i].name \notin {options.addFields[k].name : k \in DOMAIN options.addFields}
     /\ sch[i].name \notin Range(options.removeFields)
     /\ sch[i].name \notin ArrangedNames(options.arrangeFields)}

\* The field of sch named as field is, in the same group
KeepsGroup(field, sch) ==
  \E k \in DOMAIN sch :
    /\ sch[k].name = field.name
    /\ sch[k].group.set
    /\ sch[k].group.name = field.group.name

\* C9 as stated: every field the options of a refine neither add, remove nor
\* arrange has in the result the group name it had in the refined schema.
C9_UntouchedKeepGroup ==
  cfg.op = "refine" =>
    \A i \in Untouched(prevSchema, cfg.options) : KeepsGroup(prevSchema[i], schema)

\* C9, amended: every field the options of a refine neither add, remove nor
\* arrange, and whose group is not declared again, by name, by a group record
\* of those options, has in the result the group name it had in the refined
\* schema.
C9_UntouchedKeepGroupUnlessRedeclared ==
  cfg.op = "refine" =>
    \A i \in Untouched(prevSchema, cfg.options) :
      prevSchema[i].group.name \notin ArrangedGroupNames(cfg.options.arrangeFields)
        => KeepsGroup(prevSchema[i], schema)

\* A refine whose options arrange a into g2 has left b, which they do not
\* touch, in g1, where compose had put both
C9_Witness ==
  /\ cfg.op = "refine"
  /\ cfg.options.arrangeFields = <<GroupItem("g2", FALSE, <<"a">>)>>
  /\ \E i \in Untouched(prevSchema, cfg.options) :
       /\ prevSchema[i].name = "b"
       /\ prevSchema[i].group.name = "g1"
       /\ KeepsGroup(prevSchema[i], schema)
  /\ \E k \in DOMAIN schema : schema[k].name = "a" /\ schema[k].group.name = "g2"

\* The field names that the group records of an arrangeFields option list
NamedByGroups(arrangeFields) ==
  UNION {Range(arrangeFields[i].fields) :
           i \in {k \in DOMAIN arrangeFields : ~arrangeFields[k].isName}}

\* C15 as stated: in what compose and refine return, every field that no
\* arranged group names (for refine: no group record of its options, and no
\* group of the refined schema) has the default group, under its configured
\* name or 'default'; with no arrangeFields, compose returns the fields in add
\* order, all in the default group.
C15_LeftoverInDefault ==
  cfg.op \in {"compose", "refine"} =>
    /\ \A i \in DOMAIN schema :
         (/\ schema[i].name \notin NamedByGroups(cfg.options.arrangeFields)
          /\ cfg.op = "refine" => \A k \in DOMAIN prevSchema : prevSchema[k].name # schema[i].name)
           => /\ schema[i].group.set
              /\ schema[i].group.name = DefaultGroupName(cfg.defaultGroup)
    /\ (cfg.op = "compose" /\ cfg.options.arrangeFields = <<>>) =>
         /\ [i \in DOMAIN schema |-> schema[i].name]
              = [i \in DOMAIN cfg.options.addFields |-> cfg.options.addFields[i].name]
         /\ \A i \in DOMAIN schema : schema[i].group.name = DefaultGroupName(cfg.defaultGroup)

----------------------------------------------------------------------------
(* The schema engine: join *)

\* Names and dot-paths are sequences of characters, so that string prefixes
\* are what they are in the code: '_a' is <<"_", "a">>

\* A field of a schema handed to join. _dotPath is <<>> and _arrays undefined
\* until join sets them.
JField(name, type) ==
  [name |-> name, type |-> type, ifOnlyOne |-> FALSE, withJoins |-> Undef,
   filters |-> Undef, managed |-> TRUE, schema |-> <<>>, dotPath |-> <<>>, arrays |-> Undef]

\* !!self.fieldTypes[field.type].join
IsJoin(field) == field.type \in {"joinByOne", "joinByArray"}

\* arrays.join('.') + '.' + name
RECURSIVE DotJoin(_, _)
DotJoin(arrays, name) ==
  IF arrays = <<>> THEN name ELSE Head(arrays) \o <<".">> \o DotJoin(Tail(arrays), name)

\* findJoins: the descriptors it leaves on the fields of schema, for the array
\* fields `arrays` leading to it and `count` objects
RECURSIVE FindJoinsMark(_, _, _)
FindJoinsMark(sch, arrays, count) ==
  [i \in DOMAIN sch |->
     LET field == sch[i]
     IN IF IsJoin(field)
        THEN [field EXCEPT !.dotPath = DotJoin(arrays, field.name),
                           !.arrays = IF count > 1 /\ field.ifOnlyOne THEN @ ELSE Arr(arrays)]
        ELSE IF field.type = "array"
        THEN [field EXCEPT !.schema = FindJoinsMark(@, Append(arrays, field.name), count)]
        ELSE field]

\* findJoins: the joins it collects, those of a schema before those of its
\* array fields
RECURSIVE FindJoinsList(_)
FindJoinsList(sch) ==
  LET RECURSIVE nested(_)
      nested(i) ==
        IF i > Len(sch) THEN <<>>
        ELSE (IF sch[i].type = "array" THEN FindJoinsList(sch[i].schema) ELSE <<>>)
               \o nested(i + 1)
  IN SelectSeq(sch, IsJoin) \o nested(1)

\* withJoinName.substr(0, n)
Substr0(str, n) == SubSeq(str, 1, IF n < Len(str) THEN n ELSE Len(str))

\* withJoinName.substr(n)
SubstrFrom(str, n) == SubSeq(str, n + 1, Len(str))

\* withJoinName.substr(0, dotPath.length + 1) === (dotPath + '.')
Leads(withJoinName, dotPath) ==
  Substr0(withJoinName, Len(dotPath) + 1) = dotPath \o <<".">>

\* The filter over joins for an explicit withJoins list: winner
Winner(withJoins, dotPath) ==
  \E k \in DOMAIN withJoins : withJoins[k] = dotPath \/ Leads(withJoins[k], dotPath)

\* What the same filter pushes to withJoinsNext[dotPath]
RECURSIVE RemaindersFrom(_, _, _)
RemaindersFrom(withJoins, dotPath, k) ==
  IF k > Len(withJoins) THEN <<>>
  ELSE (IF withJoins[k] # dotPath /\ Leads(withJoins[k], dotPath)
        THEN <<SubstrFrom(withJoins[k], Len(dotPath) + 1)>> ELSE <<>>)
         \o RemaindersFrom(withJoins, dotPath, k + 1)

\* withJoinsNext[join._dotPath], undefined when nothing was stored
WithJoinsNext(withJoins, join) ==
  IF withJoins[1] = "arr"
  THEN LET rest == RemaindersFrom(withJoins[2], join.dotPath, 1)
       IN IF rest = <<>> THEN Undef ELSE Arr(rest)
  ELSE IF Truthy(join.withJoins) THEN join.withJoins ELSE Undef

\* The joins eachSeries runs over
JoinsToRun(withJoins, joins) ==
  IF withJoins[1] = "arr"
  THEN SelectSeq(joins, LAMBDA join : Winner(withJoins[2], join.dotPath))
  ELSE joins

\* options.filters as the driver receives it
DriverFilters(withJoins, join) ==
  Assign(Cond("joins", OrElse(WithJoinsNext(withJoins, join), Bool(FALSE))), join.filters)

\* An object handed to join: its id and what it holds under the array fields
\* r and s, a JS array of objects or undefined
JObject(id, r, s) == <<id, r, s>>

\* object[array]
ObjectProp(object, array) ==
  IF array = <<"r">> THEN object[2] ELSE IF array = <<"s">> THEN object[3] ELSE Undef

\* findObjectsInArrays taking every object itself, whatever the arrays
FindObjectsAtTop(objects, arrays) == IF arrays = Undef THEN <<>> ELSE objects

\* findObjectsInArrays(objects, arrays), for arrays a JS array or undefined
RECURSIVE FindObjectsInArrays(_, _)
FindObjectsInArrays(objects, arrays) ==
  IF ~Truthy(arrays) THEN <<>>
  ELSE IF arrays[2] = <<>> THEN objects
  ELSE LET array == Head(arrays[2])
           RECURSIVE concat(_)
           concat(i) ==
             IF i > Len(objects) THEN <<>>
             ELSE OrElse(ObjectProp(objects[i], array), Arr(<<>>))[2] \o concat(i + 1)
       IN FindObjectsInArrays(concat(1), Arr(Tail(arrays[2])))

JoinInIdle ==
  [status |-> "idle", withJoins |-> Undef, count |-> 0, objects |-> <<>>, pending |-> <<>>]

\* A test that lets every name through
RejectedForManager(join) == ~join.managed

\* Whether the iterator ends with an error before it reaches the driver: the
\* name does not match /^_/, or getManager(join.withType) finds no manager
Rejected(join) == Head(join.name) # "_" \/ ~join.managed

\* The iterator of eachSeries is run on the first of in.pending, if any, after
\* the driver invocations `calls`: it fails for a name without a leading
\* underscore and for a type without a manager, and else invokes the join
\* driver of the field type
Iterate(in, calls) ==
  IF in.pending = <<>>
  THEN jin' = [in EXCEPT !.status = "done"] /\ jcalls' = calls
  ELSE LET join == Head(in.pending)
       IN IF Rejected(join)
          THEN jin' = [in EXCEPT !.status = "err"] /\ jcalls' = calls
          ELSE /\ jin' = [in EXCEPT !.status = "driver"]
               /\ jcalls' = Append(calls,
                                   [name |-> join.name,
                                    dotPath |-> join.dotPath,
                                    arrays |-> join.arrays,
                                    objects |-> FindObjectsInArrays(in.objects, join.arrays),
                                    joins |-> ObjGet(DriverFilters(in.withJoins, join), "joins")])

\* self.join(req, schema, objects, withJoins, callback) on jschema
CallJoinOn(objects, withJoins) ==
  /\ jin.status \in {"idle", "done", "err"}
  /\ IF withJoins = Bool(FALSE) \/ objects = <<>>
     THEN /\ jin' = [JoinInIdle EXCEPT !.status = "done", !.withJoins = withJoins,
                                       !.count = Len(objects), !.objects = objects]
          /\ jcalls' = <<>>
          /\ UNCHANGED jschema
     ELSE LET marked == FindJoinsMark(jschema, <<>>, Len(objects))
          IN /\ jschema' = marked
             /\ Iterate([status |-> "running", withJoins |-> withJoins,
                         count |-> Len(objects), objects |-> objects,
                         pending |-> JoinsToRun(withJoins, FindJoinsList(marked))], <<>>)
  /\ UNCHANGED <<cursorVars, composeVars>>

\* Documents without array fields, told apart by their ids
PlainObjects(count) == [i \in 1..count |-> JObject(i, Undef, Undef)]

\* self.join on jschema, for count documents without array fields
CallJoin(count, withJoins) == CallJoinOn(PlainObjects(count), withJoins)

\* The join driver calls back: with an error the series ends, else it goes on
\* to the next join
DriverCallback ==
  /\ jin.status = "driver"
  /\ \E out \in {"ok", "err"} :
       IF out = "err"
       THEN jin' = [jin EXCEPT !.status = "err"] /\ UNCHANGED jcalls
       ELSE Iterate([jin EXCEPT !.pending = Tail(@)], jcalls)
  /\ UNCHANGED <<jschema, cursorVars, composeVars>>

----------------------------------------------------------------------------
(* SpecJoin: join called on one schema, with and without a withJoins list *)

\* Bound: the length of a withJoins list
MaxWith == 2

\* Bound: the number of objects handed to join
MaxObjects == 2

\* The join _a
JoinA == JField(<<"_", "a">>, "joinByOne")

\* The join _ab, which declares withJoins: ['_y']
JoinAB == [JField(<<"_", "a", "b">>, "joinByArray") EXCEPT !.withJoins = Arr(<< <<"_", "y">> >>)]

\* title, _a, _ab and the array field r holding a join _a of its own
JoinSchema(a, ab) ==
  <<JField(<<"t">>, "string"), a, ab,
    [JField(<<"r">>, "array") EXCEPT !.schema = <<[JoinA EXCEPT !.ifOnlyOne = TRUE]>>]>>

\* A join named x, without the underscore
JoinX == JField(<<"x">>, "joinByOne")

\* The schema as it is; with filters: { joins: true } on _a; with a type
\* unknown to the doc managers on _ab; with the join x in the place of _a
JoinSchemas ==
  {JoinSchema(JoinA, JoinAB),
   JoinSchema([JoinA EXCEPT !.filters = Cond("joins", Bool(TRUE))], JoinAB),
   JoinSchema(JoinA, [JoinAB EXCEPT !.managed = FALSE]),
   JoinSchema(JoinX, JoinAB)}

\* '_a', '_a._b', '_ab._x', 'r._a._c'
DotPaths ==
  {<<"_", "a">>, <<"_", "a", ".", "_", "b">>, <<"_", "a", "b", ".", "_", "x">>,
   <<"r", ".", "_", "a", ".", "_", "c">>}

WithJoinsChoices == {Undef, Bool(FALSE)} \cup {Arr(l) : l \in SeqsUpTo(DotPaths, MaxWith)}

InitJoin ==
  /\ CursorIdle /\ ComposeIdle
  /\ jschema \in JoinSchemas
  /\ jcalls = <<>>
  /\ jin = JoinInIdle

NextJoin ==
  \/ \E count \in 0..MaxObjects, withJoins \in WithJoinsChoices : CallJoin(count, withJoins)
  \/ DriverCallback

SpecJoin == InitJoin /\ [][NextJoin]_vars

\* A listed path names the join at dotPath: it is that path, or goes on with '.'
NamesJoin(listed, dotPath) ==
  \/ listed = dotPath
  \/ /\ Len(listed) > Len(dotPath)
     /\ SubSeq(listed, 1, Len(dotPath)) = dotPath
     /\ listed[Len(dotPath) + 1] = "."

\* The listed paths that go past dotPath, without 'dotPath.', in the order listed
RemaindersOf(list, dotPath) ==
  LET longer == SelectSeq(list, LAMBDA w : w # dotPath /\ NamesJoin(w, dotPath))
  IN [k \in DOMAIN longer |-> SubSeq(longer[k], Len(dotPath) + 2, Len(longer[k]))]

\* C10 as stated: for a call of join with an explicit list on at least one
\* object, the drivers invoked so far are those of the first joins, in schema
\* order, that the list names (of all of them once the call has succeeded), and
\* each was handed as joins the remainders of the listed paths past its
\* dot-path, or false when there is none.
C10_ExplicitWithJoins ==
  (jin.withJoins[1] = "arr" /\ jin.count > 0) =>
    LET list == jin.withJoins[2]
        named == SelectSeq(FindJoinsList(jschema),
                           LAMBDA join : \E k \in DOMAIN list : NamesJoin(list[k], join.dotPath))
    IN /\ Len(jcalls) <= Len(named)
       /\ jin.status = "done" => Len(jcalls) = Len(named)
       /\ \A k \in DOMAIN jcalls :
            /\ jcalls[k].dotPath = named[k].dotPath
            /\ jcalls[k].joins =
                 IF RemaindersOf(list, jcalls[k].dotPath) = <<>> THEN Bool(FALSE)
                 ELSE Arr(RemaindersOf(list, jcalls[k].dotPath))

----------------------------------------------------------------------------
(* SpecDescend: join called on documents holding arrays of arrays *)

\* The join _b, and the join _c
JoinB == JField(<<"_", "b">>, "joinByOne")
JoinC == JField(<<"_", "c">>, "joinByArray")

\* _a at top level, _b in the schema of the array field r, _c in the schema of
\* the array field s of r
DescendSchema(b) ==
  <<JoinA,
    [JField(<<"r">>, "array") EXCEPT
       !.schema = <<b, [JField(<<"s">>, "array") EXCEPT !.schema = <<JoinC>>]>>]>>

\* The schema as it is, and with ifOnlyOne on _b
DescendSchemas == {DescendSchema(JoinB), DescendSchema([JoinB EXCEPT !.ifOnlyOne = TRUE])}

\* A document with two elements under r, the first of them with one element
\* under s; a document without r; a document with one element under r that has
\* two elements under s
Documents ==
  {JObject(1, Arr(<<JObject(11, Undef, Arr(<<JObject(111, Undef, Undef)>>)),
                    JObject(12, Undef, Undef)>>), Undef),
   JObject(2, Undef, Undef),
   JObject(3, Arr(<<JObject(31, Undef, Arr(<<JObject(311, Undef, Undef),
                                             JObject(312, Undef, Undef)>>))>>), Undef)}

\* 'r._b' and 'r.s._c'
DescendPaths == {<<"r", ".", "_", "b">>, <<"r", ".", "s", ".", "_", "c">>}

InitDescend ==
  /\ CursorIdle /\ ComposeIdle
  /\ jschema \in DescendSchemas
  /\ jcalls = <<>>
  /\ jin = JoinInIdle

NextDescend ==
  \/ \E objects \in SeqsUpTo(Documents, MaxObjects),
        withJoins \in {Undef} \cup {Arr(<<w>>) : w \in DescendPaths} :
       CallJoinOn(objects, withJoins)
  \/ DriverCallback

SpecDescend == InitDescend /\ [][NextDescend]_vars

\* The array fields that lead to the join of that name in DescendSchema
NestingOf(name) ==
  IF name = <<"_", "a">> THEN <<>>
  ELSE IF name = <<"_", "b">> THEN << <<"r">> >>
  ELSE << <<"r">>, <<"s">> >>

\* 'a1. ... .ak.name'
DotPathOf(name) ==
  IF name = <<"_", "a">> THEN name
  ELSE IF name = <<"_", "b">> THEN <<"r", ".">> \o name
  ELSE <<"r", ".", "s", ".">> \o name

\* The elements reached by descending path from every one of objects, those of
\* an earlier object or element before those of a later one
RECURSIVE Reached(_, _)
Reached(objects, path) ==
  IF path = <<>> THEN objects
  ELSE LET above == Reached(objects, SubSeq(path, 1, Len(path) - 1))
           under(o) == IF ObjectProp(o, path[Len(path)])[1] = "arr"
                       THEN ObjectProp(o, path[Len(path)])[2] ELSE <<>>
           RECURSIVE flat(_)
           flat(i) == IF i = 0 THEN <<>> ELSE flat(i - 1) \o under(above[i])
       IN flat(Len(above))

\* A join driver invocation was handed the dot-path, the array path and the
\* elements that the place of its join in the schema calls for
DescendedCall(call) ==
  /\ call.dotPath = DotPathOf(call.name)
  /\ call.arrays = Arr(NestingOf(call.name))
  /\ call.objects = Reached(jin.objects, NestingOf(call.name))

\* C11 as stated: every join driver invoked by join was given the dot-path
\* 'a1. ... .ak.name' and the array path [a1, ..., ak] of the array fields
\* leading to its join, and was handed exactly the elements reached by
\* descending a1, ..., ak from every document.
C11_JoinObjects == \A k \in DOMAIN jcalls : DescendedCall(jcalls[k])

\* The join of an invocation is flagged ifOnlyOne
FlaggedIfOnlyOne(call) == call.name = <<"_", "b">> /\ jschema[2].schema[1].ifOnlyOne

\* C11, amended: every join driver invoked by join was given the dot-path
\* 'a1. ... .ak.name' of its join, and, unless the join is flagged ifOnlyOne
\* and join was called with more than one document, the array path
\* [a1, ..., ak] and exactly the elements reached by descending a1, ..., ak
\* from every document.
C11_JoinObjectsUnlessIfOnlyOne ==
  \A k \in DOMAIN jcalls :
    /\ jcalls[k].dotPath = DotPathOf(jcalls[k].name)
    /\ (jin.count > 1 /\ FlaggedIfOnlyOne(jcalls[k])) \/ DescendedCall(jcalls[k])

\* The driver of _c, two arrays down, was handed the three elements that two
\* documents hold there
C11_Witness ==
  /\ jin.count = 2
  /\ \E k \in DOMAIN jcalls :
       /\ jcalls[k].name = <<"_", "c">>
       /\ jcalls[k].arrays = Arr(<< <<"r">>, <<"s">> >>)
       /\ Len(jcalls[k].objects) = 3
       /\ jcalls[k].objects[1] = JObject(111, Undef, Undef)

----------------------------------------------------------------------------
(* The schema engine: toGroups and subset *)

\* A group of a grouped schema: { type: 'group', name, fields }
Group(name, fields) == [type |-> "group", name |-> name, fields |-> fields]

\* fields[0].type === 'group': the fields of this model carry no type, as none
\* of theirs is 'group'
IsGroup(item) == "type" \in DOMAIN item /\ item.type = "group"

\* if (!field.group) field.group = { name: 'default', label: 'info' }
WithGroup(field) ==
  IF field.group.set THEN field
  ELSE [field EXCEPT !.group = [set |-> TRUE, name |-> "default", last |-> FALSE]]

\* toGroups opening a group for every field
PushFieldAlone(groups, field) ==
  Append(groups, Group(WithGroup(field).group.name, <<WithGroup(field)>>))

\* One turn of the loop of toGroups over a field that is not contextual
PushField(groups, field) ==
  LET f == WithGroup(field)
  IN IF groups = <<>> \/ groups[Len(groups)].name # f.group.name
     THEN Append(groups, Group(f.group.name, <<f>>))
     ELSE [groups EXCEPT ![Len(groups)].fields = Append(@, f)]

\* The loop of toGroups from field i on
RECURSIVE ToGroupsFrom(_, _, _)
ToGroupsFrom(fields, i, groups) ==
  IF i > Len(fields) THEN groups
  ELSE ToGroupsFrom(fields, i + 1,
                    IF fields[i].contextual THEN groups ELSE PushField(groups, fields[i]))

\* self.toGroups(fields)
toGroups(fields) ==
  IF Len(fields) = 0 THEN <<>>
  ELSE IF IsGroup(fields[1]) THEN fields
  ELSE ToGroupsFrom(fields, 1, <<>>)

\* The array handed to toGroups, as the call leaves it: the fields without a
\* group that it went over have got the group 'default'
ToGroupsLeaves(fields) ==
  IF Len(fields) = 0 \/ IsGroup(fields[1]) THEN fields
  ELSE [i \in DOMAIN fields |-> IF fields[i].contextual THEN fields[i] ELSE WithGroup(fields[i])]

\* schema = self.toGroups(schema)
CallToGroups ==
  /\ schema' = toGroups(schema)
  /\ prevSchema' = ToGroupsLeaves(schema)
  /\ cfg' = [cfg EXCEPT !.op = "toGroups"]
  /\ UNCHANGED <<cursorVars, joinVars>>

----------------------------------------------------------------------------
(* SpecGroups: toGroups on flat schemas and on what compose returns *)

\* Bound: the length of a flat schema handed to toGroups
MaxFlat == 3

\* Fields a and b, in no group, in g1 or in g2, contextual or not
FlatFields ==
  {[Field(n, 1) EXCEPT !.contextual = c, !.group = g] :
     n \in {"a", "b"}, c \in BOOLEAN,
     g \in {NoGroup, [set |-> TRUE, name |-> "g1", last |-> FALSE],
            [set |-> TRUE, name |-> "g2", last |-> FALSE]}}

\* addFields with and without contextual fields, under every arrangement
GroupsOptions ==
  {[NoOptions EXCEPT !.addFields = add, !.arrangeFields = arr] :
     add \in {BaseFields,
              <<Field("a", 1), [Field("b", 1) EXCEPT !.contextual = TRUE], Field("c", 1)>>,
              <<[Field("a", 1) EXCEPT !.contextual = TRUE]>>},
     arr \in Arrangements}

InitGroups ==
  /\ CursorIdle /\ JoinIdle
  /\ \E d \in DefaultGroups : cfg = [defaultGroup |-> d, op |-> "none", options |-> NoOptions, names |-> <<>>,
              left |-> NoOptions]
  /\ schema \in SeqsUpTo(FlatFields, MaxFlat)
  /\ prevSchema = <<>>

NextGroups ==
  \/ cfg.op = "none" /\ schema = <<>> /\ \E options \in GroupsOptions : CallCompose(options)
  \/ CallToGroups

SpecGroups == InitGroups /\ [][NextGroups]_vars

\* The fields of a flat schema that are not contextual
NotContextual(fields) == SelectSeq(fields, LAMBDA f : ~f.contextual)

\* The fields of the groups, one group after the other
RECURSIVE FieldsOfGroups(_)
FieldsOfGroups(groups) ==
  IF groups = <<>> THEN <<>> ELSE Head(groups).fields \o FieldsOfGroups(Tail(groups))

\* No two groups have the same name
DistinctGroupNames(groups) ==
  \A i, j \in DOMAIN groups : groups[i].name = groups[j].name => i = j

\* What toGroups returns is returned as it is by toGroups
ToGroupsIdempotent == cfg.op = "toGroups" => toGroups(schema) = schema

\* toGroups of what compose has returned: distinct names, and the fields that
\* are not contextual, in their order
ToGroupsOfComposed ==
  (cfg.op = "compose" /\ cfg'.op = "toGroups") =>
     /\ DistinctGroupNames(schema')
     /\ FieldsOfGroups(schema') = NotContextual(schema)

\* C12: for every flat schema s, the empty one and those with contextual
\* fields only included, toGroups(toGroups(s)) = toGroups(s); and for s
\* returned by compose, the groups of toGroups(s) have pairwise distinct names
\* and their fields, one group after the other, are the fields of s that are
\* not contextual, in the same order.
C12_ToGroups == [](ToGroupsIdempotent) /\ [][ToGroupsOfComposed]_vars

\* toGroups has been called on the two groups it returned for what compose
\* returned, a schema with a contextual field
C12_Witness ==
  /\ cfg.op = "toGroups"
  /\ Len(cfg.options.addFields) = 3
  /\ cfg.options.addFields[2].contextual
  /\ Len(schema) = 2
  /\ prevSchema = schema

----------------------------------------------------------------------------
(* SpecSubset: subset on flat schemas and on what toGroups returns *)

\* _.contains(fields, field.name)
Contains(names, name) == \E k \in DOMAIN names : names[k] = name

\* subset keeping the groups left without fields
SubsetKeepingGroups(groups, names) ==
  [i \in DOMAIN groups |->
     [groups[i] EXCEPT !.fields = SelectSeq(@, LAMBDA field : Contains(names, field.name))]]

\* subset over the deep clone of a grouped schema: the fields of every group
\* are filtered, then the groups
SubsetOfGroups(groups, names) ==
  SelectSeq(SubsetKeepingGroups(groups, names), LAMBDA group : Len(group.fields) > 0)

\* self.subset(schema, fields), for a schema that has a first element
subset(sch, names) ==
  IF IsGroup(sch[1]) THEN SubsetOfGroups(sch, names)
  ELSE SelectSeq(sch, LAMBDA field : Contains(names, field.name))

\* schema = self.subset(schema, fields): schema[0].type throws a TypeError for
\* a schema without elements, and the caller keeps the schema it has
CallSubset(names) ==
  /\ IF Len(schema) = 0
     THEN /\ cfg' = [cfg EXCEPT !.op = "subset threw", !.names = names]
          /\ UNCHANGED schema
     ELSE /\ cfg' = [cfg EXCEPT !.op = "subset", !.names = names]
          /\ schema' = subset(schema, names)
  /\ prevSchema' = schema
  /\ UNCHANGED <<cursorVars, joinVars>>

\* Lists of field names handed to subset
SubsetNames == {<<>>, <<"a">>, <<"b", "a">>, <<"c">>, <<"c", "a", "b">>}

NextSubset ==
  \/ cfg.op = "none" /\ schema = <<>> /\ \E options \in GroupsOptions : CallCompose(options)
  \/ cfg.op \in {"none", "compose"} /\ CallToGroups
  \/ cfg.op \in {"none", "compose", "toGroups"} /\ \E names \in SubsetNames : CallSubset(names)

SpecSubset == InitGroups /\ [][NextSubset]_vars

\* The groups of a grouped schema that have a field named in names, in their
\* order, each with those of its fields, in their order
RECURSIVE ListedOfGroups(_, _)
ListedOfGroups(groups, names) ==
  IF groups = <<>> THEN <<>>
  ELSE LET listed == SelectSeq(Head(groups).fields, LAMBDA f : \E k \in DOMAIN names : names[k] = f.name)
       IN (IF listed = <<>> THEN <<>> ELSE <<[Head(groups) EXCEPT !.fields = listed]>>)
            \o ListedOfGroups(Tail(groups), names)

\* subset has returned, for a grouped schema, the groups and fields listed, and
\* has left the schema as it was
SubsetStep ==
  (cfg.op = "toGroups" /\ cfg'.op \in {"subset", "subset threw"}) =>
     /\ cfg'.op = "subset"
     /\ schema' = ListedOfGroups(schema, cfg'.names)
     /\ prevSchema' = schema

\* C13 as stated: for every grouped schema and every list of field names,
\* subset returns the groups in their order, each with exactly its fields
\* whose name is listed, in their order, without the groups left with no
\* field, and leaves the schema handed to it as it was.
C13_Subset == [][SubsetStep]_vars

\* The same for the grouped schemas that have a group
C13_SubsetOfGroups == [][Len(schema) > 0 => SubsetStep]_vars

----------------------------------------------------------------------------
(* SpecRequire: compose and refine over removeFields and requireFields *)

\* Bound: the length of a requireFields list
MaxRequire == 2

\* a, b and c, none required or b required; removeFields and requireFields
\* name fields added, fields removed and the name z that no field has
RequireOptions ==
  {[NoOptions EXCEPT !.addFields = add, !.removeFields = rem, !.requireFields = req,
                     !.arrangeFields = arr] :
     add \in {BaseFields, <<Field("a", 1), [Field("b", 1) EXCEPT !.required = TRUE], Field("c", 1)>>},
     rem \in {<<>>, <<"a">>, <<"b", "c">>, <<"z">>},
     req \in SeqsUpTo({"a", "b", "z"}, MaxRequire),
     arr \in {<<>>, <<GroupItem("g1", FALSE, <<"b", "a">>)>>}}

\* What refine is handed after compose
RequireAgain ==
  {[NoOptions EXCEPT !.removeFields = rem, !.requireFields = req] :
     rem \in {<<>>, <<"b">>}, req \in {<<"b">>, <<"c", "z">>}}

InitRequire == CursorIdle /\ ComposeInit(DefaultGroups) /\ JoinIdle

NextRequire ==
  \/ cfg.op = "none" /\ \E options \in RequireOptions : CallCompose(options)
  \/ cfg.op = "compose" /\ \E options \in RequireAgain : CallRefine(options)

SpecRequire == InitRequire /\ [][NextRequire]_vars

\* What the last call returns for other options
Returned(options) ==
  IF cfg.op = "compose" THEN compose(cfg.defaultGroup, options)
  ELSE refine(cfg.defaultGroup, prevSchema, options)

\* The names of the fields handed to the last call
NamesGiven ==
  {cfg.options.addFields[i].name : i \in DOMAIN cfg.options.addFields}
    \cup (IF cfg.op = "refine" THEN {prevSchema[i].name : i \in DOMAIN prevSchema} ELSE {})

\* requireFields names a field that removeFields removes, or that is not there
RequiredInVain(name) ==
  /\ name \in Range(cfg.options.requireFields)
  /\ name \in Range(cfg.options.removeFields) \/ name \notin NamesGiven

\* C14: when requireFields holds a name that is in removeFields too, or that no
\* field has, compose (and refine) returns a schema, without a field of that
\* name, in which every field has the required flag it has in what is returned
\* for the same options without that name in requireFields.
C14_RequireMissing ==
  cfg.op \in {"compose", "refine"} =>
    \A name \in {"a", "b", "c", "z"} :
      RequiredInVain(name) =>
        LET without == [cfg.options EXCEPT
                          !.requireFields = SelectSeq(@, LAMBDA n : n # name)]
            other == Returned(without)
        IN /\ \A i \in DOMAIN schema : schema[i].name # name
           /\ Len(other) = Len(schema)
           /\ \A i \in DOMAIN schema :
                \E j \in DOMAIN other :
                  other[j].name = schema[i].name /\ other[j].required = schema[i].required

\* compose was handed a in removeFields and a and b in requireFields: a is not
\* there and b is required
C14_Witness ==
  /\ cfg.op = "compose"
  /\ RequiredInVain("a")
  /\ "a" \in NamesGiven
  /\ "b" \in Range(cfg.options.requireFields)
  /\ \E i \in DOMAIN schema : schema[i].name = "b" /\ schema[i].required
  /\ \E i \in DOMAIN schema : schema[i].name = "c" /\ ~schema[i].required

----------------------------------------------------------------------------
(* SpecCustom: a cursor with the filter `custom` of a subclass in use *)

CallsCustom ==
  {<<"custom", <<Str("refinalize")>>>>,
   <<"custom", <<Str("throw")>>>>,
   <<"autocomplete", <<Str("x")>>>>,
   <<"limit", <<Num(5)>>>>}

InitCustom == CursorInit({Undef}) /\ ComposeIdle /\ JoinIdle

NextCustom == CursorNext(CallsCustom, {"toArray", "toMongo"})

SpecCustom == InitCustom /\ [][NextCustom]_vars

\* In this step the finalizer flow f was waiting for has ended with one of outs
FinalizerEnded(f, outs) ==
  /\ flows[f].phase = "fin"
  /\ flows'[f] # flows[f]
  /\ flows'[f].out \in outs

\* A finalizer has signalled 'refinalize': the series starts again with the
\* first finalizer and the cursor is not finalized
RefinalizeStep ==
  \A f \in Flows :
    FinalizerEnded(f, {"refinalize", "returned refinalize"}) =>
      /\ flows'[f].phase = "fin"
      /\ flows'[f].pos = 1
      /\ flows'[f].ran = <<FilterOrder[1]>>
      /\ ~finalized'[flows[f].cur]

\* C16 as stated: when a finalizer returns 'refinalize' or delivers it to its
\* callback, no finalizer registered after it is run in that pass, the series
\* is run again from the first finalizer, and the cursor is not finalized by
\* that pass.
C16_Refinalize == [][RefinalizeStep]_vars

\* A finalizer has failed: the operation is over with that error, the cursor
\* is not marked finalized and no query was sent
FailedStep ==
  \A f \in Flows :
    FinalizerEnded(f, {"err", "threw"}) =>
      /\ flows'[f].phase = "idle"
      /\ event' = Ev("err", flows[f].cur, FALSE)
      /\ finalized' = finalized
      /\ lastQuery' = lastQuery

\* C17 as stated: when a finalizer throws or delivers an error to its callback
\* during a terminal operation, no later finalizer runs, the cursor is not
\* marked finalized, no query is sent to the store and the caller gets the
\* error.
C17_FinalizerFails == [][FailedStep]_vars

----------------------------------------------------------------------------
(* The after pass and fetch-one *)

\* In this step the after pass of flow f ends, with or without an error
AfterPassEnds(f) == flows[f].phase = "after" /\ flows'[f].phase = "idle"

\* A filter method called during an after pass is not refused, and the pass
\* ends with the finalized flag it began with
AfterPassStep ==
  /\ (event'.kind = "call" /\ InPhase(event'.cur, "after")) => ~event'.threw
  /\ \A f \in Flows : AfterPassEnds(f) => finalized'[flows[f].cur] = flows[f].origFin

\* A cursor that was finalized and has no operation in progress is finalized
StaysFinalized == \A cur \in Cursors : (finDone[cur] /\ FlowsOn(cur) = {}) => finalized[cur]

\* C18 as stated: filter methods can be called while an after pass runs, and
\* when the pass ends, with every hook succeeding or with one failing, the
\* finalized flag is what it was just before the pass; so a cursor that has
\* been finalized stays finalized after terminal fetches.
C18_AfterRestores == [](StaysFinalized) /\ [][AfterPassStep]_vars

----------------------------------------------------------------------------
(* SpecOne: toObject on a cursor with limit, page and perPage *)

CallsOne ==
  {<<"limit", <<Num(5)>>>>,
   <<"page", <<Num(2)>>>>,
   <<"perPage", <<Num(3)>>>>}

InitOne == CursorInit({Undef}) /\ ComposeIdle /\ JoinIdle

NextOne == CursorNext(CallsOne, {"toObject", "toArray"})

SpecOne == InitOne /\ [][NextOne]_vars

\* C19 as stated: the query toObject sends to the store has limit 1, whatever
\* limit, page and perPage were set and whether or not the cursor was finalized
\* before.
C19_FetchOneLimit ==
  \A f \in Flows :
    (flows[f].op = "toObject" /\ flows[f].phase = "store") =>
       lastQuery[flows[f].cur].limit = Num(1)

\* In this step toObject calls back, with a document, without one or with an
\* error
ToObjectCallsBack(f) == flows[f].op = "toObject" /\ flows'[f].phase = "idle"

\* C20 as stated: when toObject has called back, with or without an error, the
\* limit of the cursor is what it was just before the call.
C20_FetchOneRestoresLimit ==
  [][\A f \in Flows :
       ToObjectCallsBack(f) => Get(heap'[stateRef[flows[f].cur]], "limit") = flows[f].savedLimit]_vars

----------------------------------------------------------------------------
(* toCount *)

\* toCount that leaves the pagination of its clone as it is
KeepPagination(st) == st

\* cursor.skip(undefined); cursor.limit(undefined); cursor.page(undefined);
\* cursor.perPage(undefined), on the clone
ClearPagination(st) ==
  ApplySet(ApplySet(ApplySet(ApplySet(st, "skip", <<Undef>>), "limit", <<Undef>>),
                    "page", <<Undef>>), "perPage", <<Undef>>)

\* Math.floor(count / perPage), and one more when count % perPage is not 0
TotalPages(count, perPage) ==
  (count \div perPage) + (IF count % perPage # 0 THEN 1 ELSE 0)

\* self.toCount(callback) is called on cursor c by flow f: the clone c2 is
\* made, its pagination is cleared and its toMongo enters finalize, where the
\* series runs the first finalizer
StartCount(f) ==
  /\ Exists("c")
  /\ flows[f].phase = "idle"
  /\ FlowsOn("c2") = {}
  /\ LET r == CloneStateRef(stateRef["c"])
         cleared == ClearPagination(heap[stateRef["c"]])
     IN /\ heap' = [heap EXCEPT ![r] = Finalizer(FilterOrder[1], cleared)]
        /\ stateRef' = [stateRef EXCEPT !["c2"] = r]
        /\ flows' = [flows EXCEPT ![f] =
                       [IdleFlow EXCEPT !.op = "toCount", !.cur = "c2", !.phase = "fin",
                                        !.pos = 1, !.ran = <<FilterOrder[1]>>, !.pre = cleared]]
  /\ finalized' = [finalized EXCEPT !["c2"] = FALSE]
  /\ finDone' = [finDone EXCEPT !["c2"] = FALSE]
  /\ passes' = [passes EXCEPT !["c2"] = 1]
  /\ lastQuery' = [lastQuery EXCEPT !["c2"] = Undef]
  /\ event' = Ev("step", "c", FALSE)
  /\ UNCHANGED <<composeVars, joinVars>>

\* Bound: the number of documents the store counts
MaxCount == 3

\* mongo.count calls back: with a count, totalPages is set on c when c has a
\* perPage, and toCount calls back with the count
CountReturn(f) ==
  /\ flows[f].phase = "count"
  /\ LET fl == flows[f]
         st == StateOf("c")
         perPage == Get(st, "perPage")
     IN \/ /\ flows' = [flows EXCEPT ![f] = Finished(fl)]
           /\ event' = Ev("err", "c", FALSE)
           /\ UNCHANGED heap
        \/ \E count \in 0..MaxCount :
             /\ heap' = [heap EXCEPT ![stateRef["c"]] =
                           IF Truthy(perPage)
                           THEN Set(st, "totalPages", Num(TotalPages(count, perPage[2])))
                           ELSE st]
             /\ flows' = [flows EXCEPT ![f] = [Finished(fl) EXCEPT !.result = Num(count)]]
             /\ event' = Ev("done", "c", FALSE)
  /\ UNCHANGED <<stateRef, finalized, lastQuery, finDone, passes, composeVars, joinVars>>

----------------------------------------------------------------------------
(* SpecCount: toCount and toArray on a cursor with pagination *)

CallsCount ==
  {<<"skip", <<Num(1)>>>>,
   <<"limit", <<Num(5)>>>>,
   <<"page", <<Num(2)>>>>,
   <<"perPage", <<Num(2)>>>>}

InitCount == CursorInit({Undef}) /\ ComposeIdle /\ JoinIdle

\* The caller sets filters between operations
NextCount ==
  \/ Quiet /\ \E call \in CallsCount : UserCall("c", call)
  \/ StartOp("f1", "c", "toArray")
  \/ StartCount("f1")
  \/ FinCallback("f1")
  \/ Query("f1")
  \/ StoreReturn("f1")
  \/ AfterCallback("f1")
  \/ CountReturn("f1")

SpecCount == InitCount /\ [][NextCount]_vars

\* The count query of toCount carries no skip and no limit
CountQueryUnpaged ==
  \A f \in Flows :
    (flows[f].op = "toCount" /\ flows[f].phase = "count") =>
       /\ lastQuery["c2"].skip = Undef
       /\ lastQuery["c2"].limit = Undef

\* The least k with k * n >= count
Ceiling(count, n) == CHOOSE k \in 0..count : k * n >= count /\ (k = 0 \/ (k - 1) * n < count)

\* A step of toCount: the cursor keeps its filter values and its finalized
\* flag; when toCount calls back with a count and the cursor has perPage = n > 0,
\* totalPages is ceil(count / n)
CountStep ==
  \A f \in Flows :
    (flows'[f] # flows[f] /\ "toCount" \in {flows[f].op, flows'[f].op}) =>
       /\ stateRef'["c"] = stateRef["c"]
       /\ \A key \in StateKeys \ {"totalPages"} : Get(StateOf("c")', key) = Get(StateOf("c"), key)
       /\ finalized'["c"] = finalized["c"]
       /\ LET n == Get(StateOf("c"), "perPage")
          IN (flows'[f].result # Undef /\ IsNumber(n) /\ n[2] > 0) =>
                Get(StateOf("c")', "totalPages") = Num(Ceiling(flows'[f].result[2], n[2]))

\* C21: the count query of toCount carries no skip and no limit, whatever
\* skip, limit, page and perPage the cursor has; toCount changes no filter
\* value of the cursor and does not finalize it; and with perPage = n > 0 on
\* the cursor it sets totalPages to ceil(count / n), 0 for a count of 0.
C21_ToCount == [](CountQueryUnpaged) /\ [][CountStep]_vars

\* toCount has counted 3 documents for a cursor with skip 1, limit 5, page 2
\* and perPage 2 that was not finalized: totalPages is 2
C21_Witness ==
  /\ flows["f1"].result = Num(3)
  /\ Get(StateOf("c"), "totalPages") = Num(2)
  /\ Get(StateOf("c"), "skip") = Num(1)
  /\ Get(StateOf("c"), "limit") = Num(5)
  /\ Get(StateOf("c"), "page") = Num(2)
  /\ ~finalized["c"]
  /\ finDone["c2"]

----------------------------------------------------------------------------
(* queryToFilters: filters applied in bulk from an untrusted query *)

\* Filters whose definition has a launder function
HasLaunder(name) ==
  name \in {"sort", "skip", "limit", "page", "autocomplete", "search", "tag",
            "tags", "trash", "published"}

\* definition.safeFor of each filter
SafeFor(name) ==
  CASE name \in {"skip", "limit", "page", "autocomplete", "search", "tag", "tags"}
         -> Str("public")
    [] name \in {"trash", "published"} -> Str("manage")
    [] OTHER -> Undef

\* parseInt(s, 10) of the strings a query carries; NaN is <<"nan">>
NaN == <<"nan">>
ParseInt(v) ==
  CASE v = Str("7") -> Num(7)
    [] v = Str("-3") -> Num(-3)
    [] v = Str("1") -> Num(1)
    [] v = Str("-1") -> Num(-1)
    [] v = Str("0") -> Num(0)
    [] OTHER -> NaN

\* s.trim() of the strings a query carries
Trim(s) == IF s = " x " THEN "x" ELSE s

\* apos.launder.integer(v, def, min)
LaunderInteger(v, def, min) ==
  LET i == IF IsNumber(v) THEN v ELSE ParseInt(v)
  IN IF i = NaN THEN Num(def)
     ELSE IF i[2] < min THEN Num(min) ELSE i

\* apos.launder.string(v)
LaunderString(v) == IF v[1] = "str" THEN Str(Trim(v[2])) ELSE Str("")

\* apos.launder.booleanOrNull(v)
LaunderBooleanOrNull(v) ==
  IF v[1] = "bool" THEN v
  ELSE LET s == LaunderString(v)
       IN CASE s \in {Str("true"), Str("1")} -> Bool(TRUE)
            [] s \in {Str("false"), Str("0")} -> Bool(FALSE)
            [] OTHER -> Null

\* The launder of the sort filter: 'search', or the properties of an object
\* whose value is 1 or -1 (given as a number or as a string)
RECURSIVE LaunderSortPairs(_)
LaunderSortPairs(pairs) ==
  IF pairs = <<>> THEN <<>>
  ELSE LET val == IF ParseInt(pairs[1][2]) \in {Num(1), Num(-1)}
                  THEN ParseInt(pairs[1][2]) ELSE pairs[1][2]
       IN (IF val \in {Num(1), Num(-1)} THEN << <<pairs[1][1], val>> >> ELSE <<>>)
          \o LaunderSortPairs(Tail(pairs))

LaunderSort(v) ==
  IF v = Str("search") THEN v
  ELSE IF v[1] \notin {"obj", "arr", "null"} THEN Undef
  ELSE IF v[1] = "obj" THEN Obj(LaunderSortPairs(v[2]))
  ELSE EmptyObj

\* The launder of the tags filter
LaunderTags(v) ==
  IF v[1] # "arr" THEN Arr(<<>>)
  ELSE Arr([i \in 1..Len(v[2]) |-> LaunderString(v[2][i])])

\* self.filters[name].launder(value)
Launder(name, value) ==
  CASE name \in {"skip", "limit"} -> LaunderInteger(value, 0, 0)
    [] name = "page" -> LaunderInteger(value, 1, 1)
    [] name \in {"autocomplete", "search", "tag"} -> LaunderString(value)
    [] name = "tags" -> LaunderTags(value)
    [] name \in {"trash", "published"} -> LaunderBooleanOrNull(value)
    [] name = "sort" -> LaunderSort(value)
    [] OTHER -> value

\* The value handed to the filter as the query supplied it
RawValue(name, value) == value

\* value = self.filters[name].launder(value): the value handed to the filter
LaunderedValue(name, value) == Launder(name, value)

RegisteredFilters == {FilterOrder[i] : i \in 1..NFilters}

\* A queryToFilters that does not ask for a launder
HonouredUnlaundered(name, safeFor) ==
  /\ name \in RegisteredFilters
  /\ ~(Truthy(safeFor) /\ safeFor # Str("manage") /\ safeFor # SafeFor(name))

\* Whether queryToFilters goes on to call the filter of this key
Honoured(name, safeFor) ==
  /\ name \in RegisteredFilters
  /\ HasLaunder(name)
  /\ ~(Truthy(safeFor) /\ safeFor # Str("manage") /\ safeFor # SafeFor(name))

\* The filter calls self[name](value) queryToFilters makes, in the order of
\* the keys of the query
RECURSIVE FilterCallsOf(_, _)
FilterCallsOf(query, safeFor) ==
  IF query = <<>> THEN <<>>
  ELSE (IF Honoured(query[1][1], safeFor)
        THEN << <<query[1][1], LaunderedValue(query[1][1], query[1][2])>> >>
        ELSE <<>>)
       \o FilterCallsOf(Tail(query), safeFor)

RECURSIVE ApplyCalls(_, _)
ApplyCalls(st, calls) ==
  IF calls = <<>> THEN st
  ELSE ApplyCalls(ApplySet(st, calls[1][1], <<calls[1][2]>>), Tail(calls))

\* self.queryToFilters(query, safeFor); query is the sequence of the
\* <<key, value>> of the object. A finalized cursor refuses the first filter
\* call, which throws out of queryToFilters.
QueryToFilters(cur, query, safeFor) ==
  /\ Exists(cur)
  /\ Quiet
  /\ LET calls == FilterCallsOf(query, safeFor)
         threw == calls # <<>> /\ Refuses(finalized[cur])
         made == IF threw THEN <<>> ELSE calls
     IN /\ heap' = [heap EXCEPT ![stateRef[cur]] = ApplyCalls(@, made)]
        /\ event' = [kind |-> "queryToFilters", cur |-> cur, threw |-> threw,
                     query |-> query, safeFor |-> safeFor, calls |-> made]
  /\ UNCHANGED <<stateRef, finalized, flows, lastQuery, finDone, passes, composeVars, joinVars>>

(* SpecQuery: a cursor given a few filters by its owner, then fed a query *)

\* Bound: how many keys a query has
MaxQueryKeys == 2

QueryKeys == {"skip", "page", "trash", "sort", "tags", "perPage", "criteria", "toArray", "set"}

\* The raw values a query supplies for a key
QueryValues(key) ==
  CASE key = "skip" -> {Str("7"), Str("-3")}
    [] key = "page" -> {Str("-3"), Str(" x ")}
    [] key = "trash" -> {Str("true"), Str(" x ")}
    [] key = "sort" -> {Str("7"), Obj(<< <<"title", Str("-1")>>, <<"rank", Str("up")>> >>)}
    [] key = "tags" -> {Str(" x "), Arr(<<Str(" x "), EmptyObj>>)}
    [] OTHER -> {Str("7")}

QueryPairs == UNION {{<<key, value>> : value \in QueryValues(key)} : key \in QueryKeys}

\* The objects a query string parses to: distinct keys, each with a value
Queries ==
  {q \in UNION {[1..n -> QueryPairs] : n \in 1..MaxQueryKeys} :
     \A i, j \in 1..Len(q) : i # j => q[i][1] # q[j][1]}

Contexts == {Undef, Str("public"), Str("manage"), Str("editor")}

CallsQuery == {<<"skip", <<Num(1)>>>>, <<"trash", <<Bool(FALSE)>>>>}

InitQuery == CursorInit({Undef}) /\ ComposeIdle /\ JoinIdle

NextQuery ==
  \/ \E call \in CallsQuery : event.kind # "queryToFilters" /\ UserCall("c", call)
  \/ \E query \in Queries, safeFor \in Contexts :
       event.kind # "queryToFilters" /\ QueryToFilters("c", query, safeFor)

SpecQuery == InitQuery /\ [][NextQuery]_vars

\* The value the query supplied for a key
QueryValueOf(query, name) ==
  LET i == CHOOSE i \in 1..Len(query) : query[i][1] = name IN query[i][2]

QueryHas(query, name) == \E i \in 1..Len(query) : query[i][1] = name

\* Every filter call of the step is for a key of the query and carries the
\* sanitizer's output for the value supplied
CallsAreLaundered(ev) ==
  \A i \in 1..Len(ev.calls) :
    /\ QueryHas(ev.query, ev.calls[i][1])
    /\ ev.calls[i][1] \in RegisteredFilters
    /\ HasLaunder(ev.calls[i][1])
    /\ ev.calls[i][2] = Launder(ev.calls[i][1], QueryValueOf(ev.query, ev.calls[i][1]))

\* C22 as stated: queryToFilters invokes a filter for a key of the query only
\* if it is registered, has a launder and declares itself safe for exactly
\* the requested context, and hands it the laundered value.
C22_SafeForExactly ==
  [][event'.kind = "queryToFilters" =>
       /\ CallsAreLaundered(event')
       /\ \A i \in 1..Len(event'.calls) : SafeFor(event'.calls[i][1]) = event'.safeFor]_vars

\* C22 amended: queryToFilters invokes a filter for a key of the query only
\* if it is registered and has a launder, and, when a context other than
\* 'manage' is requested, declares itself safe for exactly that context; with
\* 'manage' or no context every filter with a launder qualifies. Every filter
\* invoked receives the laundered value.
C22_SafeForUnlessManage ==
  [][event'.kind = "queryToFilters" =>
       /\ CallsAreLaundered(event')
       /\ \A i \in 1..Len(event'.calls) :
            \/ event'.safeFor \in {Undef, Str("manage")}
            \/ SafeFor(event'.calls[i][1]) = event'.safeFor]_vars

C22_Witness ==
  /\ event.kind = "queryToFilters"
  /\ event.safeFor = Str("public")
  /\ event.query = << <<"skip", Str("-3")>>, <<"trash", Str("true")>> >>
  /\ event.calls = << <<"skip", Num(0)>> >>
  /\ Get(StateOf("c"), "skip") = Num(0)
  /\ Get(StateOf("c"), "trash") = Bool(FALSE)

----------------------------------------------------------------------------
(* SpecOrder: fetch-many with and without explicitOrder *)

CallsOrder ==
  {<<"explicitOrder", <<Arr(<<Str("d3"), Str("dX"), Str("d1")>>)>>>>,
   <<"explicitOrder", <<Arr(<<Str("s1"), Str("s2")>>), Str("slug")>>>>,
   <<"explicitOrder", <<Bool(FALSE)>>>>,
   <<"skip", <<Num(1)>>>>,
   <<"limit", <<Num(2)>>>>}

InitOrder == CursorInit({Undef}) /\ ComposeIdle /\ JoinIdle

NextOrder ==
  \/ Quiet /\ \E call \in CallsOrder : UserCall("c", call)
  \/ StartOp("f1", "c", "toArray")
  \/ FinCallback("f1")
  \/ Query("f1")
  \/ StoreReturn("f1")
  \/ AfterCallback("f1")

SpecOrder == InitOrder /\ [][NextOrder]_vars

\* The documents among results whose property is id
DocsWith(results, property, id) ==
  SelectSeq(results, LAMBDA doc : ObjHas(doc, property) /\ ObjGet(doc, property) = id)

\* The documents of results named in ids, ordered as in ids
RECURSIVE OrderedAs(_, _, _)
OrderedAs(results, ids, property) ==
  IF ids = <<>> THEN <<>>
  ELSE DocsWith(results, property, ids[1]) \o OrderedAs(results, Tail(ids), property)

\* What fetch-many is to return for the documents fetched
ExplicitOrderOf(st, results) ==
  IF Truthy(Get(st, "explicitOrder"))
  THEN Arr(OrderedAs(results, Get(st, "explicitOrder")[2],
                     OrElse(Get(st, "explicitOrderProperty"), Str("_id"))[2]))
  ELSE Arr(results)

\* C23: when toArray has called back with documents, they are the fetched
\* documents named in explicitOrder, ordered as there, when explicitOrder is
\* set, and the fetched documents in store order when it is not.
C23_ExplicitOrder ==
  (event.kind = "done" /\ event.cur = "c") =>
     flows["f1"].result = ExplicitOrderOf(StateOf("c"), Fetched(lastQuery["c"]))

----------------------------------------------------------------------------
(* SpecAnd: and() and criteria() calls around finalize passes *)

\* Bound: how many $and levels the criteria may have for and() to be called
MaxAndCalls == 2

CallsAnd ==
  {<<"and", <<Cond("b", Num(2))>>>>,
   <<"and", <<Cond("a", Num(3))>>>>,
   <<"and", <<Undef>>>>,
   <<"and", <<Null>>>>,
   <<"criteria", <<Cond("z", Num(9))>>>>,
   <<"addLateCriteria", <<Cond("a", Num(5))>>>>}

\* A caller's filter call; and() with a condition is bounded by MaxAndCalls
AndCall(cur, call) ==
  /\ (call[1] = "and" /\ Truthy(call[2][1])) =>
        Exists(cur) /\ AndDepth(Get(StateOf(cur), "criteria")) < MaxAndCalls
  /\ CallFilter(cur, call[1], call[2])

InitAnd == CursorInit({Undef, Cond("a", Num(1))}) /\ ComposeIdle /\ JoinIdle

NextAnd ==
  \/ \E call \in CallsAnd : AndCall("c", call)
  \/ StartOp("f1", "c", "toMongo")
  \/ FinCallback("f1")
  \/ Query("f1")

SpecAnd == InitAnd /\ [][NextAnd]_vars

ConditionsOf(st) ==
  IF Truthy(Get(st, "criteria")) THEN Conjuncts(Get(st, "criteria")) ELSE {}

\* The step is an accepted call of and(c) on cursor c
IsAndCall(c) == ~finalized["c"] /\ CallFilter("c", "and", <<c>>)

\* The step is an accepted call of criteria(...) on cursor c
IsCriteriaCall ==
  \E call \in CallsAnd : call[1] = "criteria" /\ ~finalized["c"] /\ CallFilter("c", call[1], call[2])

AndStep ==
  LET p == Get(StateOf("c"), "criteria")
      q == Get(StateOf("c")', "criteria")
  IN /\ \A call \in CallsAnd :
          (call[1] = "and" /\ IsAndCall(call[2][1])) =>
             IF ~Truthy(call[2][1]) THEN heap' = heap
             ELSE IF Truthy(p) THEN q = AndC(p, call[2][1])
             ELSE q = call[2][1]
     /\ ConditionsOf(StateOf("c")) \subseteq ConditionsOf(StateOf("c")') \/ IsCriteriaCall

----------------------------------------------------------------------------
(* SpecSort: the sort a finalize pass settles on *)

\* self.set(key, value) called from outside the cursor, as a filter of
\* a subclass does to announce regex search
SetCall(cur, key, value) ==
  /\ Exists(cur)
  /\ ~InPhase(cur, "fin")
  /\ heap' = [heap EXCEPT ![stateRef[cur]] = Set(@, key, value)]
  /\ event' = Ev("set", cur, FALSE)
  /\ UNCHANGED <<stateRef, finalized, flows, lastQuery, finDone, passes, composeVars, joinVars>>

CallsSort ==
  {<<"sort", <<Cond("title", Num(-1))>>>>,
   <<"sort", <<Obj(<< <<"title", Num(1)>>, <<"date", Num(-1)>> >>)>>>>,
   <<"sort", <<Bool(FALSE)>>>>,
   <<"search", <<Str("x")>>>>,
   <<"defaultSort", <<Cond("date", Num(-1))>>>>,
   <<"type", <<Str("event")>>>>,
   <<"type", <<Str("unmanaged")>>>>}

InitSort == CursorInit({Undef}) /\ ComposeIdle /\ JoinIdle

NextSort ==
  \/ Quiet /\ ~finalized["c"] /\ \E call \in CallsSort : UserCall("c", call)
  \/ Quiet /\ ~finalized["c"] /\ SetCall("c", "regexSearch", Bool(TRUE))
  \/ StartOp("f1", "c", "toMongo")
  \/ FinCallback("f1")
  \/ Query("f1")

SpecSort == InitSort /\ [][NextSort]_vars

SearchRelevance == Cond("textScore", TextScoreMeta)

\* The store sort of a sort object for a managed type: title is sortified
StoreSortOf(sort) ==
  IF IsObj(sort) /\ ObjHas(sort, "title")
  THEN ObjDel(ObjSet(sort, "titleSortified", ObjGet(sort, "title")), "title")
  ELSE sort

\* C25: when a finalize pass has completed on a cursor whose sort was unset
\* when the pass began, the sort is defaultSort, or { title: 1 } when none is
\* configured, if no search is active; the search relevance ordering if search
\* is active without regex search; and no sort at all if search is active with
\* regex search. With sort(false) there is no sort, and a sort object given
\* explicitly is the sort in every case. For a type with a manager the store
\* sort is that sort with its sortify fields renamed.
C25_Sort ==
  \A f \in Flows :
    PassCompleted(f) =>
      LET pre == flows[f].pre
          post == StateOf(flows[f].cur)
          sort == Get(post, "sort")
          type == OrElse(Get(pre, "type"), Str("apostrophe-page"))[2]
      IN /\ (Get(pre, "sort") = Undef /\ ~Truthy(Get(pre, "search"))) =>
              sort = OrElse(Get(pre, "defaultSort"), Cond("title", Num(1)))
         /\ (Get(pre, "sort") = Undef /\ Truthy(Get(pre, "search"))
               /\ ~Truthy(Get(pre, "regexSearch"))) =>
              sort = SearchRelevance
         /\ (Get(pre, "sort") = Undef /\ Truthy(Get(pre, "search"))
               /\ Truthy(Get(pre, "regexSearch"))) =>
              sort = Undef /\ Get(post, "sortMongo") = Undef
         /\ Get(pre, "sort") = Bool(FALSE) =>
              sort = Bool(FALSE) /\ Get(post, "sortMongo") = Bool(FALSE)
         /\ IsObj(Get(pre, "sort")) => sort = Get(pre, "sort")
         /\ type \in ManagedTypes => Get(post, "sortMongo") = StoreSortOf(sort)

C25_Witness ==
  /\ PassCompleted("f1")
  /\ Get(flows["f1"].pre, "sort") = Undef
  /\ Get(flows["f1"].pre, "defaultSort") = Cond("date", Num(-1))
  /\ Get(flows["f1"].pre, "search") = Str("x")
  /\ Get(flows["f1"].pre, "regexSearch") = Bool(TRUE)
  /\ Get(StateOf("c"), "sort") = Undef

----------------------------------------------------------------------------
(* Claims about the joins value handed to the join drivers, under SpecJoin *)

\* C26: every join driver invoked by join was handed, as the joins filter of
\* the nested fetch, either false or a list of dot-paths, whatever the join
\* field declares in its filters.
C26_NestedJoinsExplicit ==
  \A k \in DOMAIN jcalls : jcalls[k].joins = Bool(FALSE) \/ jcalls[k].joins[1] = "arr"

\* No join of the schema has a joins key in its own filters
NoJoinsOverride ==
  \A k \in DOMAIN FindJoinsList(jschema) :
    LET filters == FindJoinsList(jschema)[k].filters
    IN ~(IsObj(filters) /\ ObjHas(filters, "joins"))

\* With withJoins false no driver was invoked
NoDriverWhenFalse == jin.withJoins = Bool(FALSE) => jcalls = <<>>

\* With withJoins unspecified and at least one object, a call that has
\* succeeded invoked the driver of every join found, once and in the order
\* found, handing each the join's own withJoins list, or false
EveryJoinOnce ==
  (jin.withJoins = Undef /\ jin.count > 0 /\ jin.status = "done") =>
    LET found == FindJoinsList(jschema)
    IN /\ Len(jcalls) = Len(found)
       /\ \A k \in DOMAIN jcalls :
            /\ jcalls[k].dotPath = found[k].dotPath
            /\ jcalls[k].joins = OrElse(found[k].withJoins, Bool(FALSE))

\* Below an explicit list, every path handed on is strictly shorter than a
\* path of the list above it
ShorterBelow ==
  (jin.withJoins[1] = "arr") =>
    \A k \in DOMAIN jcalls :
      \/ jcalls[k].joins = Bool(FALSE)
      \/ /\ jcalls[k].joins[1] = "arr"
         /\ \A i \in DOMAIN jcalls[k].joins[2] :
              \E j \in DOMAIN jin.withJoins[2] :
                Len(jcalls[k].joins[2][i]) < Len(jin.withJoins[2][j])

\* C27: join with withJoins false invokes no driver; with withJoins
\* unspecified it invokes the driver of every join found once, with the
\* join's own withJoins list or false; and, provided no join overrides joins
\* in its filters, below an explicit list every selector handed on consists
\* of strictly shorter paths, so a chain of nested fetches ends.
C27_NestedFetchesEnd ==
  /\ NoDriverWhenFalse
  /\ EveryJoinOnce
  /\ NoJoinsOverride => ShorterBelow

\* The same with the proviso on every part
C27_UnlessOverridden == NoJoinsOverride => C27_NestedFetchesEnd

\* The joins the series runs over for the call in progress
SelectedJoins == JoinsToRun(jin.withJoins, FindJoinsList(jschema))

\* The first of the selected joins whose name does not begin with '_' or
\* whose type has no manager; 0 when there is none
FirstUnusable ==
  LET bad == {k \in DOMAIN SelectedJoins :
                Head(SelectedJoins[k].name) # "_" \/ ~SelectedJoins[k].managed}
  IN IF bad = {} THEN 0 ELSE CHOOSE k \in bad : \A m \in bad : k <= m

\* C28: when a join selected by a call of join on at least one object has a
\* name without a leading underscore or a type without a manager, the call
\* does not succeed, the drivers invoked are those of joins before it, and
\* once they are through the call has ended with an error.
C28_UnusableJoin ==
  (jin.status # "idle" /\ jin.withJoins # Bool(FALSE) /\ jin.count > 0 /\ FirstUnusable > 0) =>
     /\ jin.status \in {"driver", "err"}
     /\ Len(jcalls) < FirstUnusable
     /\ \A k \in DOMAIN jcalls : jcalls[k].dotPath = SelectedJoins[k].dotPath
     /\ jin.status = "driver" => jin.pending # <<>> /\ Head(jin.pending).dotPath = jcalls[Len(jcalls)].dotPath

\* _a has been joined and the series has ended with an error at _ab, whose
\* type has no manager, before the join of r was reached
C28_Witness ==
  /\ jin.status = "err"
  /\ jin.withJoins = Undef
  /\ FirstUnusable = 2
  /\ Len(jcalls) = 1
  /\ Len(SelectedJoins) = 3

----------------------------------------------------------------------------
(* The last flag of arranged groups, under SpecArrange *)

IsDefaultField(field) == field.group.name = DefaultGroupName(cfg.defaultGroup)

\* The fields of a group flagged last come after the fields of the default group
FlaggedAfterDefault ==
  \A i, j \in DOMAIN schema :
    (schema[i].group.last /\ IsDefaultField(schema[j]) /\ ~schema[j].group.last) => j < i

\* With no field in a flagged group, the fields of the default group come last
DefaultLastWithoutFlag ==
  (\A k \in DOMAIN schema : ~schema[k].group.last) =>
    \A i, j \in DOMAIN schema :
      (i < j /\ IsDefaultField(schema[i])) => IsDefaultField(schema[j])

\* Groups of one name are merged: the fields of one name carry one annotation,
\* and the fields of the other groups without the flag come before the fields
\* of the groups with it
UnflaggedBeforeFlagged ==
  /\ \A i, j \in DOMAIN schema :
       schema[i].group.name = schema[j].group.name => schema[i].group = schema[j].group
  /\ \A i, j \in DOMAIN schema :
       (~schema[i].group.last /\ ~IsDefaultField(schema[i]) /\ schema[j].group.last) => i < j

\* C29: in the result of compose the fields of a group flagged last come
\* after those of the default group; with no flagged group the fields of the
\* default group come last; and after the merge by name every group without
\* the flag precedes every group with it.
C29_LastFlag ==
  cfg.op = "compose" =>
    /\ FlaggedAfterDefault
    /\ DefaultLastWithoutFlag
    /\ UnflaggedBeforeFlagged

\* The same for the built-in default group name, without the first part
C29_DefaultAtTheEnd ==
  (cfg.op = "compose" /\ cfg.defaultGroup = NoName) =>
    /\ DefaultLastWithoutFlag
    /\ UnflaggedBeforeFlagged

----------------------------------------------------------------------------
(* The inputs of compose and refine after the call, under SpecRequire *)

\* C30: after compose or refine the field records handed in addFields and the
\* group records handed in arrangeFields are as they were before the call
\* (the schema handed to refine is copied before anything is written), and
\* composing again from them gives the result of the call.
C30_InputsUnchanged ==
  cfg.op \in {"compose", "refine"} =>
    /\ cfg.left.addFields = cfg.options.addFields
    /\ cfg.left.arrangeFields = cfg.options.arrangeFields
    /\ Returned(cfg.left) = schema

\* The group records are left as they were, and so are the fields that are
\* not in the result
C30_GroupRecordsUnchanged ==
  cfg.op \in {"compose", "refine"} =>
    /\ cfg.left.arrangeFields = cfg.options.arrangeFields
    /\ \A i \in DOMAIN cfg.options.addFields :
         (\A k \in DOMAIN schema : schema[k].name # cfg.options.addFields[i].name)
           => cfg.left.addFields[i] = cfg.options.addFields[i]

----------------------------------------------------------------------------
(* SpecFinalize: finalize with finalizers that signal 'refinalize' *)

CallsFinalize ==
  {<<"autocomplete", <<Str("x")>>>>,
   <<"custom", <<Str("refinalize")>>>>,
   <<"limit", <<Num(5)>>>>}

InitFinalize == CursorInit({Undef, Cond("a", Num(1))}) /\ ComposeIdle /\ JoinIdle

NextFinalize ==
  \/ Quiet /\ \E call \in CallsFinalize : UserCall("c", call)
  \/ \E op \in {"toMongo", "toArray"} : StartOp("f1", "c", op)
  \/ FinCallback("f1")
  \/ Query("f1")
  \/ StoreReturn("f1")
  \/ AfterCallback("f1")

SpecFinalize == InitFinalize /\ [][NextFinalize]_vars

\* Every finalizer calls back: the callback of a finalizer that has been run
\* is called in the end
SpecFinalizeFair == SpecFinalize /\ WF_vars(FinCallback("f1"))

\* No operation has ended with the sentinel as its error
SentinelNotSurfaced ==
  \A f \in Flows : flows[f].phase \notin {"fin"} => flows[f].out # "refinalize"

\* A step that ends finalize calls its callback: without error, the cursor
\* being finalized and the operation going on to its query, or with the error
\* of a finalizer, which ends the operation. No other step of the operation
\* leads back into finalize.
FinalizeEndsStep ==
  LET fl == flows["f1"]
      fl2 == flows'["f1"]
  IN /\ (fl.phase = "fin" /\ fl2.phase # "fin") =>
          \/ fl2.phase = "query" /\ finalized'["c"] /\ event'.kind = "finalized"
          \/ fl2.phase = "idle" /\ fl2.out = "err" /\ event'.kind = "err" /\ ~finalized'["c"]
     /\ (fl.phase \notin {"fin", "idle"}) => fl2.phase # "fin"

\* C31: when every finalizer calls back and 'refinalize' is signalled finitely
\* often (at most MaxPasses passes are begun), a finalize that has begun ends:
\* it calls its callback, once, without error or with the error of a
\* finalizer, and 'refinalize' is never the error an operation ends with.
C31_FinalizeCallsBack ==
  /\ [](SentinelNotSurfaced)
  /\ [][FinalizeEndsStep]_vars
  /\ (flows["f1"].phase = "fin") ~> (flows["f1"].phase # "fin")

\* The autocomplete finalizer has signalled 'refinalize', the pass has been
\* begun again and finalize has called back without error
C31_Witness ==
  /\ passes["c"] = 2
  /\ flows["f1"].phase = "query"
  /\ event.kind = "finalized"
  /\ finalized["c"]
  /\ Truthy(Get(StateOf("c"), "autocomplete"))

----------------------------------------------------------------------------
(* What queryToFilters leaves alone, under SpecQuery *)

\* The filters queryToFilters has called in the step
InvokedNames(ev) == {ev.calls[i][1] : i \in DOMAIN ev.calls}

\* The value the last call of the filter was handed
LastValueFor(ev, name) ==
  LET at == {i \in DOMAIN ev.calls : ev.calls[i][1] = name}
  IN ev.calls[CHOOSE i \in at : \A j \in at : j <= i][2]

QueryStep ==
  event'.kind = "queryToFilters" =>
    /\ \A name \in InvokedNames(event') : name \in RegisteredFilters /\ HasLaunder(name)
    /\ \A key \in StateKeys :
         Get(StateOf("c")', key) =
           IF key \in InvokedNames(event') THEN LastValueFor(event', key)
           ELSE Get(StateOf("c"), key)
    /\ DOMAIN StateOf("c")' = StateKeys
    /\ UNCHANGED <<stateRef, finalized, flows, lastQuery, finDone, passes>>

\* C32: queryToFilters calls no filter for a key that is not a registered
\* filter and none for a filter without a launder, and after it the cursor
\* state differs from the state before only in the keys of the filters it
\* called, which hold what they were handed.
C32_OnlyLaunderedFilters == [][QueryStep]_vars

\* A query naming the criteria filter, which has no launder, and skip: only
\* skip was called and the criteria are as they were
C32_Witness ==
  /\ event.kind = "queryToFilters"
  /\ event.safeFor = Str("manage")
  /\ event.query = << <<"criteria", Str("7")>>, <<"skip", Str("7")>> >>
  /\ event.calls = << <<"skip", Num(7)>> >>
  /\ Get(StateOf("c"), "criteria") = Undef
  /\ Get(StateOf("c"), "skip") = Num(7)

----------------------------------------------------------------------------
(* The sort sent to the store, under SpecSort *)

\* A sort with each key that names a sortify field replaced, where it stands,
\* by the key of the normalized value
SortifiedInPlace(sort, fields) ==
  Obj([i \in DOMAIN sort[2] |->
         <<IF sort[2][i][1] \in fields THEN sort[2][i][1] \o "Sortified" ELSE sort[2][i][1],
           sort[2][i][2]>>])

\* C33: when a finalize pass has completed with a sort object, sortMongo has
\* the keys of the sort in the same order and with the same directions, each
\* key of a sortify field replaced in place by its normalized key; the sort
\* filter's value keeps the keys it was given; and for a type without a
\* manager sortMongo is the sort as it is.
C33_Sortify ==
  \A f \in Flows :
    (PassCompleted(f) /\ IsObj(Get(StateOf(flows[f].cur), "sort"))) =>
      LET pre == flows[f].pre
          post == StateOf(flows[f].cur)
          sort == Get(post, "sort")
          type == OrElse(Get(pre, "type"), Str("apostrophe-page"))[2]
      IN /\ IsObj(Get(pre, "sort")) => sort = Get(pre, "sort")
         /\ Get(post, "sortMongo") =
              IF type \in ManagedTypes THEN SortifiedInPlace(sort, SortifyFields(type))
              ELSE sort

\* The same for a sort of one key and a type with a manager
C33_SortifyOneKey ==
  \A f \in Flows :
    (PassCompleted(f) /\ IsObj(Get(StateOf(flows[f].cur), "sort"))
       /\ Len(Get(StateOf(flows[f].cur), "sort")[2]) = 1
       /\ OrElse(Get(flows[f].pre, "type"), Str("apostrophe-page"))[2] \in ManagedTypes) =>
      Get(StateOf(flows[f].cur), "sortMongo") =
        SortifiedInPlace(Get(StateOf(flows[f].cur), "sort"), {"title"})

----------------------------------------------------------------------------
(* SpecPermission: the permission criteria a finalize pass adds *)

CallsPermission ==
  {<<"permission", <<PName(<<"edit">>)>>>>,
   <<"permission", <<PName(<<"publish", "doc">>)>>>>,
   <<"permission", <<Bool(FALSE)>>>>,
   <<"permission", <<Null>>>>,
   <<"type", <<Str("event")>>>>}

InitPermission == CursorInit({Undef, Cond("a", Num(1))}) /\ ComposeIdle /\ JoinIdle

NextPermission ==
  \/ Quiet /\ ~finalized["c"] /\ \E call \in CallsPermission : UserCall("c", call)
  \/ StartOp("f1", "c", "toMongo")
  \/ FinCallback("f1")
  \/ Query("f1")

SpecPermission == InitPermission /\ [][NextPermission]_vars

\* The conjuncts of the criteria that the permission policy supplied
PermissionConjuncts(criteria) ==
  {c \in (IF Truthy(criteria) THEN Conjuncts(criteria) ELSE {}) :
     IsObj(c) /\ ObjHas(c, "$permission")}

\* The permission name checked for, by the rule: 'view-' and the type or
\* 'doc' when none is given, the name with '-' and the type or 'doc' appended
\* when it has no dash, and else the name as given
PermissionNameFor(permission, type) ==
  LET suffix == OrElse(type, Str("doc"))[2]
  IN IF ~Truthy(permission) THEN PName(<<"view", suffix>>)
     ELSE IF Len(permission[2]) = 1 THEN PName(<<permission[2][1], suffix>>)
     ELSE permission

\* C34: when a finalize pass has completed, the criteria AND in the policy's
\* criteria for the request and for 'view-doc' (or 'view-' and the type) if
\* no permission was given, for the name given with '-' and the type (or
\* 'doc') appended if it has no dash, for the name given otherwise, and no
\* permission criteria with permission(false).
C34_Permission ==
  \A f \in Flows :
    PassCompleted(f) =>
      LET pre == flows[f].pre
          permission == Get(pre, "permission")
          added == PermissionConjuncts(Get(StateOf(flows[f].cur), "criteria"))
      IN IF permission = Bool(FALSE) THEN added = {}
         ELSE added = {PermissionCriteria(Get(pre, "req"),
                                          PermissionNameFor(permission, Get(pre, "type")))}

\* The same when a permission name was given, or false
C34_PermissionGiven ==
  \A f \in Flows :
    (PassCompleted(f) /\ (Truthy(Get(flows[f].pre, "permission"))
                            \/ Get(flows[f].pre, "permission") = Bool(FALSE))) =>
      LET pre == flows[f].pre
          permission == Get(pre, "permission")
          added == PermissionConjuncts(Get(StateOf(flows[f].cur), "criteria"))
      IN IF permission = Bool(FALSE) THEN added = {}
         ELSE added = {PermissionCriteria(Get(pre, "req"),
                                          PermissionNameFor(permission, Get(pre, "type")))}

----------------------------------------------------------------------------
(* Join descriptors from one call of join to the next, under SpecDescend *)

\* The schema without the descriptors earlier calls of join left on it
RECURSIVE Unmarked(_)
Unmarked(sch) ==
  [i \in DOMAIN sch |->
     IF IsJoin(sch[i]) THEN [sch[i] EXCEPT !.dotPath = <<>>, !.arrays = Undef]
     ELSE IF sch[i].type = "array" THEN [sch[i] EXCEPT !.schema = Unmarked(@)]
     ELSE sch[i]]

\* The joins as a call on the schema definition alone finds them
FoundAfresh == FindJoinsList(FindJoinsMark(Unmarked(jschema), <<>>, jin.count))

\* The descriptor of the join at that dot-path, found afresh
AfreshAt(dotPath) ==
  FoundAfresh[CHOOSE k \in DOMAIN FoundAfresh : FoundAfresh[k].dotPath = dotPath]

\* C35: every join driver invoked by a call of join was handed the array path
\* and the elements that the schema definition, the documents and the
\* selector of that call give, whatever calls came before; a join flagged
\* ifOnlyOne is handed no element when join is called with several documents.
C35_NoCarryOver ==
  \A k \in DOMAIN jcalls :
    /\ jcalls[k].arrays = AfreshAt(jcalls[k].dotPath).arrays
    /\ jcalls[k].objects = FindObjectsInArrays(jin.objects, AfreshAt(jcalls[k].dotPath).arrays)
    /\ (jin.count > 1 /\ FlaggedIfOnlyOne(jcalls[k])) => jcalls[k].objects = <<>>

(* The join methods of the four join field types and the shared join driver *)

\* A join field as the driver's callers read it: its type and its id field
DriverField(type, idField) == [type |-> type, idField |-> idField]

\* The `reverse` argument the join method of a field type hands to joinDriver
ReverseArg(type) == type = "joinByOneReverse"

\* { $in: ids }
InIds(ids) == Obj(<<<<"$in", Arr(ids)>>>>)

\* The criteria the getter of joinDriver hands to find() for the ids collected
\* from the items
JoinDriverCriteria(reverse, ids, idField, options) ==
  LET opts == IF Truthy(options) THEN options ELSE EmptyObj
      getCriteria == OrElse(ObjGet(opts, "getCriteria"), EmptyObj)
      idsCriteria == IF reverse THEN Obj(<<<<idField, InIds(ids)>>>>)
                     ELSE Obj(<<<<"_id", InIds(ids)>>>>)
  IN Obj(<<<<"$and", Arr(<<getCriteria, idsCriteria>>)>>>>)

\* field type's join(req, field, objects, options, callback), up to the fetch
\* its getter makes for the ids collected from the objects
JoinFieldJoin(field, ids, options) ==
  /\ event' = [kind |-> "joinDriver", cur |-> "c", threw |-> FALSE,
               field |-> field, ids |-> ids, options |-> options,
               criteria |-> JoinDriverCriteria(ReverseArg(field.type), ids, field.idField, options)]
  /\ UNCHANGED <<heap, stateRef, finalized, flows, lastQuery, finDone, passes, composeVars, joinVars>>

(* SpecDriver: joins of the four types over a few collected ids *)

\* Bound: how many ids the items of a join yield
MaxIds == 2

DriverTypes == {"joinByOne", "joinByOneReverse", "joinByArray", "joinByArrayReverse"}

\* by-one types name their id field idField, by-array types idsField
DriverFields ==
  {DriverField(type, IF type \in {"joinByOne", "joinByOneReverse"} THEN "pageId" ELSE "pageIds") :
     type \in DriverTypes}
  \cup {DriverField(type, IF type \in {"joinByOne", "joinByOneReverse"} THEN "ownerId" ELSE "tagIds") :
     type \in DriverTypes}

DriverIds == SeqsUpTo({Str("d1"), Str("d2"), Str("d3")}, MaxIds)

DriverOptions ==
  {Undef, EmptyObj, Obj(<<<<"getCriteria", Obj(<<<<"published", Bool(TRUE)>>>>)>>>>)}

InitDriver == CursorInit({Undef}) /\ ComposeIdle /\ JoinIdle

NextDriver ==
  \E field \in DriverFields, ids \in DriverIds, options \in DriverOptions :
    JoinFieldJoin(field, ids, options)

SpecDriver == InitDriver /\ [][NextDriver]_vars

\* The join's own criteria: options.getCriteria, or none
OwnCriteria(options) ==
  IF options = Undef \/ ~ObjHas(options, "getCriteria") THEN EmptyObj
  ELSE ObjGet(options, "getCriteria")

\* The id condition of a fetch: the documents' own id field for the reverse
\* types, _id for the forward types
IdCondition(field, ids) ==
  IF field.type \in {"joinByOneReverse", "joinByArrayReverse"}
  THEN Obj(<<<<field.idField, InIds(ids)>>>>)
  ELSE Obj(<<<<"_id", InIds(ids)>>>>)

\* C36: for both reverse join types the fetch of the join driver selects the
\* documents whose own id field holds one of the collected ids, for both
\* forward types those whose _id is one of them, and in all four the id
\* condition is ANDed with the join's own criteria
C36_DriverCriteria ==
  event.kind = "joinDriver" =>
    event.criteria = Obj(<<<<"$and", Arr(<<OwnCriteria(event.options),
                                           IdCondition(event.field, event.ids)>>)>>>>)

\* The same for the three types other than by-array-reverse
C36_ExceptArrayReverse ==
  (event.kind = "joinDriver" /\ event.field.type # "joinByArrayReverse") =>
    event.criteria = Obj(<<<<"$and", Arr(<<OwnCriteria(event.options),
                                           IdCondition(event.field, event.ids)>>)>>>>)

(* SpecOverlap: two terminal fetches on one cursor, the second begun while the
   first is suspended at the store or in its after pass *)

CallsOverlap == {<<"limit", <<Num(5)>>>>}

InitOverlap == CursorInit({Undef}) /\ ComposeIdle /\ JoinIdle

\* The second fetch has not been made yet
SecondNotBegun == flows["f2"] = IdleFlow

\* The first fetch is suspended where the second may begin
FirstSuspended ==
  flows["f1"].op = "toArray" /\ flows["f1"].phase \in {"store", "after"}

NextOverlap ==
  \/ \E call \in CallsOverlap : UserCall("c", call)
  \/ SecondNotBegun /\ StartOp("f1", "c", "toArray")
  \/ SecondNotBegun /\ FirstSuspended /\ StartOp("f2", "c", "toArray")
  \/ ~SecondNotBegun /\ Quiet /\ StartOp("f1", "c", "toMongo")
  \/ \E f \in Flows :
       \/ FinCallback(f)
       \/ Query(f)
       \/ StoreReturn(f)
       \/ AfterCallback(f)

SpecOverlap == InitOverlap /\ [][NextOverlap]_vars

\* Both overlapping fetches have called back with their results
BothFetched ==
  /\ Quiet
  /\ flows["f1"].result # Undef
  /\ flows["f2"].result # Undef

\* After the two fetches a filter call is rejected and a terminal operation
\* starts no finalize pass
LaterStep ==
  BothFetched =>
    /\ event'.kind = "call" => event'.threw
    /\ passes' = passes

\* C37: when two terminal fetches on one cursor overlap, the second starting
\* while the first is suspended at a store call or in its after pass, then once
\* both have completed successfully the cursor is finalized: a later filter
\* call is rejected and a later terminal operation runs no finalizer again
C37_OverlapFinalized == [](BothFetched => finalized["c"]) /\ [][LaterStep]_vars

(* SpecNameless: compose over arrangements whose group records may lack a
   name, name a field twice, or name a field the schema does not have *)

\* Group records with and without a name; z is the name of no field
LooseGroupRecords ==
  {GroupItem(n, FALSE, fs) : n \in {NoName, "g1", "default"},
                             fs \in {<<"a">>, <<"a", "a">>, <<"z", "b">>, <<"b", "a">>}}

\* Lists of at most MaxGroups group records, at most one of them without a name
LooseArrangements ==
  {arr \in SeqsUpTo(LooseGroupRecords, MaxGroups) :
     \A i, j \in DOMAIN arr : (arr[i].name = NoName /\ arr[j].name = NoName) => i = j}

InitNameless == CursorIdle /\ ComposeInit(DefaultGroups) /\ JoinIdle

NextNameless ==
  \E arr \in LooseArrangements, remove \in {<<>>, <<"c">>} :
    /\ cfg.op = "none"
    /\ CallCompose([NoOptions EXCEPT !.addFields = BaseFields \o <<Field("b", 2)>>,
                                  !.removeFields = remove, !.arrangeFields = arr])

SpecNameless == InitNameless /\ [][NextNameless]_vars

\* The fields that remain after the add and remove steps of the last call
Remaining == RemoveFields(AddFields(cfg.options.addFields), cfg.options.removeFields)

\* How many fields of sch are the field f
TimesIn(sch, f) == Cardinality({i \in DOMAIN sch : sch[i].name = f.name /\ sch[i].ver = f.ver})

\* C38: the result of compose holds exactly the fields that remain after the
\* add and remove steps, each exactly once, whatever arrangeFields holds: group
\* records without a name, names that match no field, a field named in several
\* groups or several times in one group
C38_EveryFieldOnce ==
  cfg.op = "compose" =>
    /\ Len(schema) = Len(Remaining)
    /\ \A k \in DOMAIN Remaining : TimesIn(schema, Remaining[k]) = 1

\* The same for arrangements in which every group record has a name
C38_WhenGroupsAreNamed ==
  (cfg.op = "compose" /\ \A i \in DOMAIN cfg.options.arrangeFields :
                           cfg.options.arrangeFields[i].name # NoName) =>
    /\ Len(schema) = Len(Remaining)
    /\ \A k \in DOMAIN Remaining : TimesIn(schema, Remaining[k]) = 1

(* The emptiness of an object according to a schema *)

\* fieldTypes[type].empty of the field types string, boolean, array, integer
\* and float: the test the type declares, "none" when it declares none
EmptyTestOf(type) ==
  CASE type = "string" -> "length"
    [] type = "array" -> "length"
    [] type = "boolean" -> "not"
    [] OTHER -> "none"

\* emptyTest(field, value): !value.length for strings and arrays, !value for
\* booleans
EmptyTest(test, value) ==
  IF test = "length" THEN (IF value[1] = "str" THEN value[2] = "" ELSE value[2] = <<>>)
  ELSE ~Truthy(value)

\* The callback of _.find in empty: whether the field is not empty. A value
\* that is null, undefined or false yields undefined, which _.find reads as
\* false; a type without emptiness test is assumed not empty.
NotEmptyField(field, object) ==
  LET value == ObjGet(object, field.name)
  IN IF value # Null /\ value # Undef /\ value # Bool(FALSE)
     THEN (IF EmptyTestOf(field.type) = "none" THEN TRUE
           ELSE ~EmptyTest(EmptyTestOf(field.type), value))
     ELSE FALSE

\* self.empty(schema, object)
empty(sch, object) == ~(\E i \in DOMAIN sch : NotEmptyField(sch[i], object))

\* The call empty(schema, object) and what it returns
CallEmpty(sch, object) ==
  /\ event' = [kind |-> "empty", cur |-> "c", threw |-> FALSE, schema |-> sch,
               object |-> object, result |-> empty(sch, object)]
  /\ UNCHANGED <<heap, stateRef, finalized, flows, lastQuery, finDone, passes, composeVars, joinVars>>

(* SpecEmpty: empty over small schemas and objects *)

\* Bound: how many fields a schema given to empty has
MaxEmptyFields == 2

EmptyTypes == {"string", "boolean", "array", "integer", "float"}

\* The values a field of a type holds in an object
ValuesOfType(type) ==
  CASE type = "string" -> {Undef, Null, Str(""), Str("x")}
    [] type = "boolean" -> {Undef, Bool(FALSE), Bool(TRUE)}
    [] type = "array" -> {Null, Arr(<<>>), Arr(<<Num(1)>>)}
    [] type = "integer" -> {Undef, Num(0), Num(5)}
    [] type = "float" -> {Null, Num(0), Num(2)}

\* A field of a type with the value the object holds for it
TypedValues == UNION {{<<type, value>> : value \in ValuesOfType(type)} : type \in EmptyTypes}

EmptyInputs == SeqsUpTo(TypedValues, MaxEmptyFields)

\* The name of the field at position i
EmptyFieldName(i) == IF i = 1 THEN "f1" ELSE IF i = 2 THEN "f2" ELSE "f3"

SchemaOfInput(in) == [i \in DOMAIN in |-> [name |-> EmptyFieldName(i), type |-> in[i][1]]]

\* The object of an input: a property set to undefined reads like a missing one
ObjectOfInput(in) == Obj([i \in DOMAIN in |-> <<EmptyFieldName(i), in[i][2]>>])

InitEmpty == CursorInit({Undef}) /\ ComposeIdle /\ JoinIdle

NextEmpty ==
  \E in \in EmptyInputs :
    /\ event.kind = "init"
    /\ CallEmpty(SchemaOfInput(in), ObjectOfInput(in))

SpecEmpty == InitEmpty /\ [][NextEmpty]_vars

\* A value that counts as empty: null, undefined, false, the empty string,
\* the empty array and the number 0
CountsAsEmpty(value) ==
  value \in {Null, Undef, Bool(FALSE), Str(""), Arr(<<>>), Num(0)}

\* C39: empty(schema, object) is true exactly when every field's value in the
\* object is null, undefined, false or judged empty by its type; a non-empty
\* string or array makes the object non-empty and a numeric value of 0 is
\* considered empty
C39_Empty ==
  event.kind = "empty" =>
    (event.result <=>
       \A i \in DOMAIN event.schema :
         CountsAsEmpty(ObjGet(event.object, event.schema[i].name)))

\* The same for objects that hold no number 0
C39_WithoutZero ==
  (event.kind = "empty" /\ \A i \in DOMAIN event.schema :
                             ObjGet(event.object, event.schema[i].name) # Num(0)) =>
    (event.result <=>
       \A i \in DOMAIN event.schema :
         CountsAsEmpty(ObjGet(event.object, event.schema[i].name)))

(* toDistinct *)

\* What toDistinct hands to the store's distinct: the value of the criteria
\* filter; projection, skip, limit and sort are not passed
DistinctQuery(st) ==
  [criteria |-> Get(st, "criteria"), projection |-> Undef, skip |-> Undef,
   limit |-> Undef, sort |-> Undef]

\* The callback toDistinct gave to finalize is called without error
Distinct(f) ==
  /\ flows[f].phase = "query"
  /\ flows[f].op = "toDistinct"
  /\ LET fl == flows[f]
         cur == fl.cur
     IN /\ lastQuery' = [lastQuery EXCEPT ![cur] = DistinctQuery(StateOf(cur))]
        /\ flows' = [flows EXCEPT ![f] = Finished(fl)]
        /\ event' = Ev("done", cur, FALSE)
  /\ UNCHANGED <<heap, stateRef, finalized, finDone, passes, composeVars, joinVars>>

(* SpecDistinct: a cursor given criteria, late criteria and paging, then asked
   for its query or for distinct values *)

CallsDistinct ==
  {<<"addLateCriteria", <<Cond("a", Num(5))>>>>,
   <<"and", <<Cond("b", Num(2))>>>>,
   <<"limit", <<Num(5)>>>>,
   <<"skip", <<Num(1)>>>>}

InitDistinct == CursorInit({Undef, Cond("a", Num(1))}) /\ ComposeIdle /\ JoinIdle

NextDistinct ==
  \/ \E call \in CallsDistinct : Quiet /\ UserCall("c", call)
  \/ \E op \in {"toMongo", "toDistinct"} : StartOp("f1", "c", op)
  \/ FinCallback("f1")
  \/ flows["f1"].op = "toMongo" /\ Query("f1")
  \/ Distinct("f1")

SpecDistinct == InitDistinct /\ [][NextDistinct]_vars

\* The step in which toDistinct hands its query to the store
IsDistinctStep == flows["f1"].op = "toDistinct" /\ flows["f1"].phase = "query" /\ Distinct("f1")

DistinctStep ==
  IsDistinctStep =>
    /\ lastQuery'["c"].criteria = MongoQuery(StateOf("c")).criteria
    /\ lastQuery'["c"].projection = Undef /\ lastQuery'["c"].sort = Undef
    /\ lastQuery'["c"].skip = Undef /\ lastQuery'["c"].limit = Undef

\* C40: for the same cursor state the criteria toDistinct passes to the store
\* are the criteria toMongo passes, late criteria added with addLateCriteria
\* included, while projection, sort, skip and limit play no part in toDistinct
C40_DistinctCriteria == [][DistinctStep]_vars

\* The same for a cursor without late criteria
DistinctStepWithoutLate ==
  (IsDistinctStep /\ ~Truthy(Get(StateOf("c"), "lateCriteria"))) =>
    /\ lastQuery'["c"].criteria = MongoQuery(StateOf("c")).criteria
    /\ lastQuery'["c"].projection = Undef /\ lastQuery'["c"].sort = Undef
    /\ lastQuery'["c"].skip = Undef /\ lastQuery'["c"].limit = Undef

C40_WithoutLateCriteria == [][DistinctStepWithoutLate]_vars

====
